---- MODULE Spec2Model ----
(***************************************************************************)
(* Model of project_mynah: the session store (services/session_store.py),  *)
(* the per-turn pipeline (orchestration/flow.py), the intent router        *)
(* (routes/intent_router.py) and the agents the pipeline calls.            *)
(*                                                                         *)
(* Python values are modelled as follows.                                  *)
(*   - a str that the code inspects character by character (a user         *)
(*     message, an id number, an email address) is a sequence of           *)
(*     one-character strings; every other str is a TLA+ string;            *)
(*   - Optional[scalar] is a sequence of length <= 1: << >> is None and    *)
(*     <<v>> is the value v;                                               *)
(*   - an object is a record with a py_type field; None in an object       *)
(*     position is NoneObj.                                                *)
(***************************************************************************)
EXTENDS Integers, Sequences, FiniteSets, TLC

VARIABLES
    is_redis,      \* SessionStore.is_redis: the backend chosen by SessionStore.__init__
    _store,        \* InMemorySessionStore._store: session id -> dict
    _timestamps,   \* InMemorySessionStore._timestamps: session id -> time of last refresh
    redis,         \* the Redis keyspace: key -> [value, expire_at]
    now,           \* the clock, in ticks
    obs,           \* what the last operation was given and what it returned
    saved,         \* history: session id -> the object last handed to a successful save
    saved_at,      \* history: session id -> the time of that save
    last_access,   \* history: session id -> time of the last save or data-returning load
    turns,         \* the number of turns of run_orchestration so far
    inflight,      \* per worker: the turn that has loaded and not yet saved, or NoneObj
    routes_store,      \* routes.session_store in memory: _store of its own backend
    routes_timestamps, \* routes.session_store in memory: _timestamps of its own backend
    registered,        \* IntentRouter.HANDLERS: the entries register_handler has written
    _handler_cache     \* IntentRouter._handler_cache of each router instance

vars ==
    <<is_redis, _store, _timestamps, redis, now, obs, saved, saved_at, last_access, turns,
      inflight, routes_store, routes_timestamps, registered, _handler_cache>>

(***************************************************************************)
(* Bounds of the model.                                                    *)
(***************************************************************************)
\* The configured TTL (SessionStore(ttl_seconds=3600)), scaled down to ticks.
ttl_seconds == 2
\* The clock stops advancing here.
MaxTime == 3
\* Turns of run_orchestration per behaviour.
MaxTurns == 2

SessionIds == {"s1", "s2"}

\* The requests served at the same time (coroutines of one process, or processes)
Workers == {"w1", "w2"}
\* The IntentRouter instances
Routers == {"r1", "r2"}

(***************************************************************************)
(* Strings as character sequences.                                         *)
(***************************************************************************)
Digits == {"0", "1", "2", "3", "4", "5", "6", "7", "8", "9"}
Letters == {"a", "b", "c", "h", "i", "o"}

\* What str.strip() takes off the ends: the space and the newline of the alphabet
Whitespace == {" ", "\n"}

RECURSIVE lstrip(_)
lstrip(s) == IF s # << >> /\ Head(s) \in Whitespace THEN lstrip(Tail(s)) ELSE s

RECURSIVE rstrip(_)
rstrip(s) ==
    IF s # << >> /\ s[Len(s)] \in Whitespace THEN rstrip(SubSeq(s, 1, Len(s) - 1)) ELSE s

\* str.strip()
strip(s) == rstrip(lstrip(s))

\* str.replace(ch, "")
remove(s, ch) == SelectSeq(s, LAMBDA c : c # ch)

\* str.lower() is the identity on the model's alphabet (lower-case letters only)
Contains(s, ch) == \E i \in 1..Len(s) : s[i] = ch

(***************************************************************************)
(* Python values.                                                          *)
(***************************************************************************)
None == << >>
Some(v) == <<v>>
NoneObj == [py_type |-> "NoneType"]

\* Python truthiness of an Optional[str] held as a TLA+ string, of an Optional[str]
\* held as a character sequence, and of an Optional[float]
TruthyStr(opt) == opt # None /\ opt[1] # ""
TruthyChars(opt) == opt # None /\ opt[1] # << >>
TruthyNum(opt) == opt # None /\ opt[1] # 0

\* Python truthiness of an object position: a model instance is true, None is not
TruthyObj(o) == o.py_type # "NoneType"

\* Python truthiness of a dict: a dict is true when it has a key
DictTruthy(d) == DOMAIN d # {"py_type"}

IntentType ==
    {"get_balance", "get_statement", "request_settlement_quote", "setup_payment_plan",
     "query_payment_history", "query_guidelines", "escalate_to_agent", "email_statement",
     "payment_date", "confirm_banking_details", "unknown"}

EmptyDict == [py_type |-> "dict"]

NLUEntities(amount, currency, frequency) ==
    [py_type |-> "NLUEntities", amount |-> amount, currency |-> currency,
     frequency |-> frequency, payment_type |-> None, date |-> None, raw |-> EmptyDict]

DefaultEntities == NLUEntities(None, None, None)

ReasoningResult(summary) ==
    [py_type |-> "ReasoningResult", arrangement |-> NoneObj, settlement |-> NoneObj,
     summary |-> summary]

MatterDetails(minimum_payment, outstanding_balance) ==
    [py_type |-> "MatterDetails", matter_id |-> "M1", minimum_payment |-> minimum_payment,
     outstanding_balance |-> outstanding_balance, debtor_name |-> "Debtor One"]

\* The fields of ConversationContext that schemas/context.py declares, at their defaults.
ConversationContext(session_id, debtor_id, last_user_message) ==
    [py_type |-> "ConversationContext",
     session_id |-> session_id, debtor_id |-> debtor_id,
     last_user_message |-> last_user_message,
     intent |-> "unknown", entities |-> DefaultEntities, agent_path |-> << >>,
     next_agent |-> None, understood_message |-> FALSE, crm |-> NoneObj,
     reasoning_result |-> NoneObj, nlu_reasoning |-> None, final_response |-> None]

\* The fields the pipeline reads and writes that schemas/context.py does not declare
\* (section 3 of the specification: optional, absent until set).
ExtendedFields ==
    [awaiting_input |-> None, id_number |-> None, email_address |-> None,
     matter_details |-> NoneObj, proposed_amount |-> None]

ContextFields == DOMAIN ConversationContext("s", "d", None) \cup DOMAIN ExtendedFields

\* Record extension: the fields of r, and the fields of d that r lacks
Extend(r, d) ==
    [k \in DOMAIN r \cup DOMAIN d |-> IF k \in DOMAIN r THEN r[k] ELSE d[k]]

NewContext(session_id, debtor_id, last_user_message) ==
    Extend(ConversationContext(session_id, debtor_id, last_user_message), ExtendedFields)

(***************************************************************************)
(* Serialisation: pydantic's model_dump / model_validate and json.         *)
(***************************************************************************)
\* The fields (at any depth) whose value is an object, a dict or None-as-object
ObjectFields ==
    {"entities", "reasoning_result", "matter_details", "crm", "raw", "arrangement",
     "settlement"}

\* The model class of each nested field of ConversationContext
FieldClass ==
    [entities |-> "NLUEntities", reasoning_result |-> "ReasoningResult",
     matter_details |-> "MatterDetails", crm |-> "ExcaliburContext"]

\* BaseModel.model_dump(mode='json') of a nested model: a dict of its fields
dump_nested(o) == IF o.py_type = "NoneType" THEN o ELSE [o EXCEPT !.py_type = "dict"]

\* BaseModel.model_dump(mode='json'): a dict of the fields, nested models as dicts
model_dump(context) ==
    [k \in DOMAIN context |->
        IF k = "py_type" THEN "dict"
        ELSE IF k \in DOMAIN FieldClass THEN dump_nested(context[k])
        ELSE context[k]]

\* Whether ConversationContext.model_validate accepts the dict: the required fields
\* are there, the intent is one of the Literal's labels, entities is not None
validates(data) ==
    /\ {"session_id", "debtor_id"} \subseteq DOMAIN data
    /\ ("intent" \in DOMAIN data => data.intent \in IntentType)
    /\ ("entities" \in DOMAIN data => data.entities.py_type # "NoneType")

\* The same with the fields past final_response left at their defaults
model_validate_declared_only(data) ==
    LET defaults == NewContext(data.session_id, data.debtor_id, None)
    IN  [k \in ContextFields \cup {"py_type"} |->
            IF k = "py_type" THEN "ConversationContext"
            ELSE IF k \notin DOMAIN data \/ k \in DOMAIN ExtendedFields THEN defaults[k]
            ELSE IF k \in DOMAIN FieldClass
                 THEN IF data[k].py_type = "NoneType" THEN data[k]
                      ELSE [data[k] EXCEPT !.py_type = FieldClass[k]]
            ELSE data[k]]

\* ConversationContext.model_validate(data) for a dict it accepts: declared fields
\* are taken from the dict (nested dicts become their model class), the missing ones
\* take their default, undeclared keys are ignored
model_validate(data) ==
    LET defaults == NewContext(data.session_id, data.debtor_id, None)
    IN  [k \in ContextFields \cup {"py_type"} |->
            IF k = "py_type" THEN "ConversationContext"
            ELSE IF k \notin DOMAIN data THEN defaults[k]
            ELSE IF k \in DOMAIN FieldClass
                 THEN IF data[k].py_type = "NoneType" THEN data[k]
                      ELSE [data[k] EXCEPT !.py_type = FieldClass[k]]
            ELSE data[k]]

\* json.dumps(context_data, default=str): objects for dicts, null for None
RECURSIVE to_json(_)
to_json(v) ==
    [k \in DOMAIN v |->
        IF k = "py_type" THEN (IF v[k] = "NoneType" THEN "null" ELSE "object")
        ELSE IF k \in ObjectFields THEN to_json(v[k])
        ELSE v[k]]

json_dumps(data) == [py_type |-> "str", text |-> to_json(data)]

\* json.loads(data): dicts for objects, None for null
RECURSIVE from_json(_)
from_json(v) ==
    [k \in DOMAIN v |->
        IF k = "py_type" THEN (IF v[k] = "null" THEN "NoneType" ELSE "dict")
        ELSE IF k \in ObjectFields THEN from_json(v[k])
        ELSE v[k]]

json_loads(s) == from_json(s.text)

(***************************************************************************)
(* Functions with a growing and shrinking domain (Python dicts, Redis).    *)
(***************************************************************************)
Put(f, k, v) == [x \in DOMAIN f \cup {k} |-> IF x = k THEN v ELSE f[x]]
Pop(f, k) == [x \in DOMAIN f \ {k} |-> f[x]]
EmptyMap == [x \in {} |-> 0]

(***************************************************************************)
(* InMemorySessionStore.  A backend state b is [st, ts, rd]: _store,       *)
(* _timestamps and the Redis keyspace; every operation returns the new     *)
(* backend state and its result.                                           *)
(***************************************************************************)
\* The comparison with its operands the wrong way round
_is_expired_reversed(ts, session_id, t) ==
    IF session_id \notin DOMAIN ts THEN TRUE ELSE ts[session_id] - t > ttl_seconds

_is_expired(ts, session_id, t) ==
    IF session_id \notin DOMAIN ts THEN TRUE ELSE t - ts[session_id] > ttl_seconds

\* A sweep that takes every session, expired or not
_cleanup_expired_all(b, t) ==
    [b EXCEPT !.st = EmptyMap, !.ts = EmptyMap]

_cleanup_expired(b, t) ==
    LET expired == {sid \in DOMAIN b.ts : _is_expired(b.ts, sid, t)}
    IN  [b EXCEPT !.st = [x \in DOMAIN b.st \ expired |-> b.st[x]],
                  !.ts = [x \in DOMAIN b.ts \ expired |-> b.ts[x]]]

\* A delete that empties the store
InMemory_delete_context_all(b, session_id) ==
    [b |-> [b EXCEPT !.st = EmptyMap, !.ts = EmptyMap], result |-> TRUE]

\* A delete that drops the data and keeps the timestamp
InMemory_delete_context_data_only(b, session_id) ==
    [b |-> [b EXCEPT !.st = Pop(b.st, session_id)], result |-> TRUE]

InMemory_delete_context(b, session_id) ==
    [b |-> [b EXCEPT !.st = Pop(b.st, session_id), !.ts = Pop(b.ts, session_id)],
     result |-> TRUE]

\* A save that keeps the entry a session already has
InMemory_save_context_keep(b, session_id, context_data, t) ==
    LET c == _cleanup_expired(b, t)
    IN  [b |-> [c EXCEPT !.st = IF session_id \in DOMAIN c.st THEN c.st
                                ELSE Put(c.st, session_id, context_data),
                         !.ts = Put(c.ts, session_id, t)],
         result |-> TRUE]

InMemory_save_context(b, session_id, context_data, t) ==
    LET c == _cleanup_expired(b, t)
    IN  [b |-> [c EXCEPT !.st = Put(c.st, session_id, context_data),
                         !.ts = Put(c.ts, session_id, t)],
         result |-> TRUE]

\* A read that takes the entry out of the store
InMemory_load_context_pop(b, session_id, t) ==
    [b |-> InMemory_delete_context(b, session_id).b,
     result |-> IF ~_is_expired(b.ts, session_id, t) /\ session_id \in DOMAIN b.st
                THEN b.st[session_id] ELSE NoneObj]

InMemory_load_context(b, session_id, t) ==
    IF _is_expired(b.ts, session_id, t)
    THEN [b |-> InMemory_delete_context(b, session_id).b, result |-> NoneObj]
    ELSE LET context == IF session_id \in DOMAIN b.st THEN b.st[session_id] ELSE NoneObj
         IN  IF context # NoneObj /\ DictTruthy(context)
             THEN [b |-> [b EXCEPT !.ts = Put(b.ts, session_id, t)], result |-> context]
             ELSE [b |-> b, result |-> context]

InMemory_exists(b, session_id, t) ==
    IF session_id \notin DOMAIN b.st THEN [b |-> b, result |-> FALSE]
    ELSE IF _is_expired(b.ts, session_id, t)
    THEN [b |-> InMemory_delete_context(b, session_id).b, result |-> FALSE]
    ELSE [b |-> b, result |-> TRUE]

(***************************************************************************)
(* RedisSessionStore, over the commands SETEX, GET, EXPIRE, DEL, EXISTS,   *)
(* TTL.  A key whose expire_at has been reached is gone: the server        *)
(* removes it as the clock advances (see Tick).                            *)
(***************************************************************************)
_get_key(session_id) == <<"mynah:session", session_id>>

Redis_save_context(b, session_id, context_data, t) ==
    [b |-> [b EXCEPT !.rd = Put(b.rd, _get_key(session_id),
                                [value |-> json_dumps(context_data),
                                 expire_at |-> t + ttl_seconds])],
     result |-> TRUE]

Redis_load_context(b, session_id, t) ==
    LET key == _get_key(session_id)
    IN  IF key \in DOMAIN b.rd
        THEN [b |-> [b EXCEPT !.rd[key].expire_at = t + ttl_seconds],
              result |-> json_loads(b.rd[key].value)]
        ELSE [b |-> b, result |-> NoneObj]

Redis_delete_context(b, session_id) ==
    [b |-> [b EXCEPT !.rd = Pop(b.rd, _get_key(session_id))], result |-> TRUE]

Redis_exists(b, session_id) ==
    [b |-> b, result |-> _get_key(session_id) \in DOMAIN b.rd]

\* The Redis server expiring keys as time passes
RedisExpire(rd, t) == [k \in {x \in DOMAIN rd : rd[x].expire_at > t} |-> rd[k]]

(***************************************************************************)
(* SessionStore: the facade over the chosen backend.                       *)
(***************************************************************************)
SessionStore_save(b, rds, session_id, context, t) ==
    IF context.py_type \notin {"ConversationContext", "dict"}
    THEN [b |-> b, result |-> FALSE]
    ELSE LET context_data == IF context.py_type = "ConversationContext"
                             THEN model_dump(context) ELSE context
         IN  IF rds THEN Redis_save_context(b, session_id, context_data, t)
             ELSE InMemory_save_context(b, session_id, context_data, t)

SessionStore_load(b, rds, session_id, context_class, t) ==
    LET r == IF rds THEN Redis_load_context(b, session_id, t)
             ELSE InMemory_load_context(b, session_id, t)
    IN  IF r.result = NoneObj THEN r
        ELSE IF context_class /\ validates(r.result)
        THEN [b |-> r.b, result |-> model_validate(r.result)]
        ELSE r

SessionStore_delete(b, rds, session_id) ==
    IF rds THEN Redis_delete_context(b, session_id)
    ELSE InMemory_delete_context(b, session_id)

SessionStore_exists(b, rds, session_id, t) ==
    IF rds THEN Redis_exists(b, session_id) ELSE InMemory_exists(b, session_id, t)

SessionStore_get_ttl(b, rds, session_id, t) ==
    IF rds
    THEN IF _get_key(session_id) \in DOMAIN b.rd
         THEN b.rd[_get_key(session_id)].expire_at - t
         ELSE -2
    ELSE IF session_id \in DOMAIN b.ts
         THEN LET remaining == ttl_seconds - (t - b.ts[session_id])
              IN  IF remaining > 0 THEN remaining ELSE 0
         ELSE -2

\* SessionStore.list_sessions(search=None): the metadata of the sessions it finds
\* (as a set: the order is by TTL).  On Redis every key found is read with
\* self.load, which refreshes it; an empty dict is skipped.
SessionStore_list_sessions(b, rds, t) ==
    IF rds
    THEN LET listed == {k \in DOMAIN b.rd : DictTruthy(json_loads(b.rd[k].value))}
         IN  [b |-> [b EXCEPT !.rd = [k \in DOMAIN b.rd |->
                                        [b.rd[k] EXCEPT !.expire_at = t + ttl_seconds]]],
              result |-> {[session_id |-> k[2], ttl_seconds |-> b.rd[k].expire_at - t]
                          : k \in listed}]
    ELSE [b |-> b,
          result |-> {[session_id |-> sid,
                       ttl_seconds |-> SessionStore_get_ttl(b, rds, sid, t)]
                      : sid \in {x \in DOMAIN b.st : ~_is_expired(b.ts, x, t)}}]

\* SessionStore.get_stats: the number of session keys
SessionStore_get_stats(b, rds, t) ==
    IF rds THEN [b |-> b, result |-> Cardinality(DOMAIN b.rd)]
    ELSE LET c == _cleanup_expired(b, t)
         IN  [b |-> c, result |-> Cardinality(DOMAIN c.st)]

\* SessionStore.clear_all_sessions: every session key is deleted; the count
SessionStore_clear_all_sessions(b, rds) ==
    IF rds THEN [b |-> [b EXCEPT !.rd = EmptyMap], result |-> Cardinality(DOMAIN b.rd)]
    ELSE [b |-> [b EXCEPT !.st = EmptyMap, !.ts = EmptyMap],
          result |-> Cardinality(DOMAIN b.st)]

\* Whether the store holds the session and it has not expired
Live(b, rds, session_id, t) ==
    IF rds THEN _get_key(session_id) \in DOMAIN b.rd
    ELSE session_id \in DOMAIN b.st /\ ~_is_expired(b.ts, session_id, t)

\* What the store holds for a session
Stored(b, rds, session_id) ==
    IF rds THEN b.rd[_get_key(session_id)].value ELSE b.st[session_id]

Backend == [st |-> _store, ts |-> _timestamps, rd |-> redis]

(***************************************************************************)
(* orchestration/flow.py: the message predicates.                          *)
(***************************************************************************)
\* re.match(r'^\d{13}$', cleaned): thirteen digits up to the end of the string,
\* where $ also matches just before a newline that ends the string
match_13_digits(cleaned) ==
    /\ Len(cleaned) \in {13, 14}
    /\ \A i \in 1..13 : cleaned[i] \in Digits
    /\ (Len(cleaned) = 14 => cleaned[14] = "\n")

is_id_number(message) ==
    LET cleaned == remove(remove(strip(message), " "), "-")
    IN  match_13_digits(cleaned)

\* re.match(r'^[a-zA-Z0-9._%+-]+@[a-zA-Z0-9.-]+\.[a-zA-Z]{2,}$', message)
LocalChars == Letters \cup Digits \cup {".", "_", "%", "+", "-"}
DomainChars == Letters \cup Digits \cup {".", "-"}
AllIn(s, lo, hi, chars) == \A k \in lo..hi : s[k] \in chars

email_pattern(m) ==
    \E i \in 2..Len(m) :
        /\ m[i] = "@"
        /\ AllIn(m, 1, i - 1, LocalChars)
        /\ \E j \in (i + 2)..(Len(m) - 2) :
              /\ m[j] = "."
              /\ AllIn(m, i + 1, j - 1, DomainChars)
              /\ AllIn(m, j + 1, Len(m), Letters)

\* pydantic.validate_email on a string the pattern accepted: it refuses a dot at
\* either end of the local part or of the domain, and two dots in a row
validate_email(m) ==
    LET at == CHOOSE i \in 1..Len(m) : m[i] = "@"
    IN  /\ m[1] # "." /\ m[at - 1] # "." /\ m[at + 1] # "."
        /\ \A k \in 1..(Len(m) - 1) : ~(m[k] = "." /\ m[k + 1] = ".")

is_email(message) ==
    LET m == strip(message)
    IN  /\ Contains(m, "@")
        /\ ~Contains(m, " ")
        /\ email_pattern(m)
        /\ validate_email(m)

(***************************************************************************)
(* The external collaborators: what each call can come back with.          *)
(***************************************************************************)
\* The classifier chain: a label of the closed set (one per shape of routing: the
\* two verification gates, a handler that answers and asks for data, a static
\* answer), a label outside the set (the output parser refuses it), or a failed
\* model call
ClassifierOutcomes ==
    {"get_balance", "setup_payment_plan", "get_statement", "unknown", "small_talk",
     "ModelError"}

\* The extractor chain: an NLUResult, or a failed model call
ExtractorOutcomes ==
    {[ok |-> TRUE, entities |-> DefaultEntities],
     [ok |-> TRUE, entities |-> NLUEntities(Some(250), Some("ZAR"), Some("monthly"))],
     [ok |-> TRUE, entities |-> NLUEntities(Some(0), None, Some("monthly"))],
     [ok |-> FALSE, entities |-> DefaultEntities]}

\* The case-management lookup: what get_linked_matter_details returns
DataAgentResult(success, matter_details, error_message) ==
    [success |-> success, matter_details |-> matter_details, error_message |-> error_message]

DataOutcomes == {"ok", "not_found", "api_exception", "empty_body", "http_status", "network"}

\* The response chain: a ResponseOutput (possibly with an empty text), or a failure
ResponseOutcomes == {"ok", "empty", "ModelError"}

\* The email API
EmailOutcomes == {"ok", "failed"}

(***************************************************************************)
(* A turn in progress: the context, whether an exception has escaped, the  *)
(* external calls made so far, and the context the router was handed and   *)
(* the one it returned (NoneObj while it has not run).  A stage maps a     *)
(* turn to the set of turns it can end in, one per outcome of the external *)
(* call it makes.                                                          *)
(***************************************************************************)
Append1(path, name) == IF \E i \in 1..Len(path) : path[i] = name THEN path ELSE Append(path, name)

Called(t, call) == [t EXCEPT !.calls = Append(t.calls, call)]
Raise(t) == [t EXCEPT !.raised = TRUE]
With(t, ctx) == [t EXCEPT !.ctx = ctx]

\* MasterAgent.run with understood_message assigned from this turn's
\* classification alone
MasterAgent_run_resets(t) ==
    IF t.raised THEN {t}
    ELSE {LET c == Called(t, <<"classifier", intent>>)
          IN  IF intent \notin IntentType THEN Raise(c)
              ELSE With(c, [c.ctx EXCEPT
                      !.intent = intent,
                      !.agent_path = Append(@, "Master Agent"),
                      !.next_agent = Some("NLU Agent"),
                      !.understood_message = (intent # "unknown"),
                      !.reasoning_result = ReasoningResult(Some("classifier reasoning"))])
          : intent \in ClassifierOutcomes}

(***************************************************************************)
(* agents/master.py                                                        *)
(***************************************************************************)
MasterAgent_run(t) ==
    IF t.raised THEN {t}
    ELSE {LET c == Called(t, <<"classifier", intent>>)
          IN  IF intent \notin IntentType THEN Raise(c)
              ELSE With(c, [c.ctx EXCEPT
                      !.intent = intent,
                      !.agent_path = Append(@, "Master Agent"),
                      !.next_agent = Some("NLU Agent"),
                      !.understood_message = (@ \/ intent # "unknown"),
                      !.reasoning_result = ReasoningResult(Some("classifier reasoning"))])
          : intent \in ClassifierOutcomes}

(***************************************************************************)
(* agents/nlu.py                                                           *)
(***************************************************************************)
\* any(context.entities.model_dump().values())
AnyEntity(e) ==
    \/ TruthyNum(e.amount)
    \/ TruthyStr(e.currency)
    \/ TruthyStr(e.frequency)
    \/ TruthyStr(e.payment_type)
    \/ TruthyStr(e.date)
    \/ DictTruthy(e.raw)

NLUAgent_run(t) ==
    IF t.raised \/ ~TruthyChars(t.ctx.last_user_message) THEN {t}
    ELSE {LET c == Called(t, <<"extractor">>)
          IN  IF ~nlu_result.ok THEN Raise(c)
              ELSE With(c, [c.ctx EXCEPT
                      !.entities = nlu_result.entities,
                      !.nlu_reasoning = Some("extractor reasoning"),
                      !.understood_message = (@ \/ AnyEntity(nlu_result.entities)),
                      !.agent_path = Append1(@, "NLUAgent")])
          : nlu_result \in ExtractorOutcomes}

(***************************************************************************)
(* routes/intent_router.py: the handlers.  A response text is named by the *)
(* handler that writes it and what it says; the figures a text quotes are  *)
(* left out of the name.                                                   *)
(***************************************************************************)
\* The handler as it was before the data agent (lines 21-36)
BalanceHandler_before(context) ==
    [context EXCEPT !.next_agent = Some("DataAgent"),
                    !.final_response = Some("balance: I'm retrieving your balance information")]

BalanceHandler(context) ==
    IF ~TruthyChars(context.id_number)
    THEN [context EXCEPT
            !.awaiting_input = Some("id_number"),
            !.final_response = Some("balance: please provide your ID number"),
            !.next_agent = None]
    ELSE [context EXCEPT !.next_agent = Some("DataAgent")]

\* The same with "is None" in the place of "not"
PaymentPlanMissing_is_none(entities) ==
    SelectSeq(<<"amount", "frequency">>,
              LAMBDA e : IF e = "amount" THEN entities.amount = None
                         ELSE entities.frequency = None)

\* [e for e in REQUIRED_ENTITIES if not entities.get(e)], REQUIRED_ENTITIES = amount, frequency
PaymentPlanMissing(entities) ==
    SelectSeq(<<"amount", "frequency">>,
              LAMBDA e : IF e = "amount" THEN ~TruthyNum(entities.amount)
                         ELSE ~TruthyStr(entities.frequency))

\* The handler without the check of the ID number
PaymentPlanHandler_no_gate(context) ==
    IF PaymentPlanMissing(context.entities) # << >>
    THEN [context EXCEPT !.next_agent = Some("ResponseAgent")]
    ELSE [context EXCEPT !.next_agent = Some("DataAgent")]

PaymentPlanHandler(context) ==
    IF PaymentPlanMissing(context.entities) # << >>
    THEN [context EXCEPT !.next_agent = Some("ResponseAgent")]
    ELSE IF ~TruthyChars(context.id_number)
    THEN [context EXCEPT
            !.awaiting_input = Some("id_number"),
            !.final_response = Some("payment plan: please provide your ID number"),
            !.next_agent = None]
    ELSE [context EXCEPT !.next_agent = Some("DataAgent")]

SettlementHandler(context) ==
    [context EXCEPT
        !.final_response = IF TruthyNum(context.entities.amount)
                           THEN Some("settlement: quote on your proposed amount")
                           ELSE Some("settlement: shall I calculate the best amount"),
        !.next_agent = Some("ReasoningAgent")]

StatementHandler(context) ==
    [context EXCEPT !.final_response = Some("statement: view it here or by email"),
                    !.next_agent = Some("DataAgent")]

PaymentHistoryHandler(context) ==
    [context EXCEPT !.final_response = Some("payment history: let me pull it up"),
                    !.next_agent = Some("DataAgent")]

\* A handler that also ends whatever the conversation was waiting for
BankingDetailsHandler_clears(context) ==
    [context EXCEPT !.final_response = Some("banking details"),
                    !.awaiting_input = None, !.next_agent = None]

BankingDetailsHandler(context) ==
    [context EXCEPT !.final_response = Some("banking details")]

EscalateHandler(context) ==
    [context EXCEPT !.final_response = Some("escalate: connecting you to a consultant"),
                    !.next_agent = Some("HumanHandoff")]

PaymentDateHandler(context) ==
    [context EXCEPT !.final_response = Some("payment date: let me check"),
                    !.next_agent = Some("DataAgent")]

EmailStatementHandler(context) ==
    [context EXCEPT !.final_response = Some("email statement: sending to address on file")]

SmallTalkHandler(context) ==
    [context EXCEPT !.final_response = Some("small talk menu")]

UnknownIntentHandler(context) ==
    [context EXCEPT !.final_response = Some("clarifying menu")]

\* Defined in the module but in no entry of IntentRouter.HANDLERS
PaymentPlanSetupHandler(context) ==
    LET c == [context EXCEPT !.agent_path = Append(@, "PaymentPlanSetupHandler")]
    IN  IF ~TruthyObj(c.matter_details)
        THEN IF ~TruthyChars(c.id_number)
             THEN [c EXCEPT !.final_response = Some("payment plan setup: provide your 13-digit ID"),
                            !.awaiting_input = Some("id_number")]
             ELSE [c EXCEPT !.next_agent = Some("DataAgent")]
        ELSE IF ~TruthyNum(c.entities.amount)
        THEN [c EXCEPT !.final_response = Some("payment plan setup: amount and frequency please"),
                       !.awaiting_input = Some("payment_details")]
        ELSE IF c.entities.amount[1] < c.matter_details.minimum_payment
        THEN [c EXCEPT !.final_response = Some("payment plan setup: below minimum, request approval?"),
                       !.awaiting_input = Some("approval_choice"),
                       !.proposed_amount = c.entities.amount]
        ELSE [c EXCEPT !.final_response = Some("payment plan setup: plan summary, confirm?"),
                       !.awaiting_input = Some("plan_confirmation"),
                       !.next_agent = Some("ConfirmationHandler")]

\* utils/validators.py, validate_email_address: a blank string is refused with a
\* message; otherwise pydantic.validate_email decides, and its refusal is a
\* PydanticCustomError, which the `except ValidationError` does not catch
validate_email_address(email) ==
    LET cleaned == strip(email)
    IN  IF cleaned = << >>
        THEN [raised |-> FALSE, is_valid |-> FALSE]
        ELSE IF Contains(cleaned, "@") /\ email_pattern(cleaned) /\ validate_email(cleaned)
        THEN [raised |-> FALSE, is_valid |-> TRUE]
        ELSE [raised |-> TRUE, is_valid |-> FALSE]

\* EmailStr(): an object of class EmailStr, which is not the address
EmailStrObject == Some(<<"EmailStr()">>)

RaisedError == [py_type |-> "Exception"]

\* Defined in the module but in no entry of IntentRouter.HANDLERS
ApprovalRequestHandler(context) ==
    LET c == [context EXCEPT !.agent_path = Append(@, "ApprovalRequestHandler")]
        p == IF ~TruthyChars(c.email_address)
             THEN [c EXCEPT !.final_response = Some("approval: please provide your email address")]
             ELSE c
    IN  IF p.awaiting_input = Some("email_address") /\ TruthyChars(p.last_user_message)
        THEN LET v == validate_email_address(p.last_user_message[1])
             IN  IF v.raised THEN RaisedError
                 ELSE IF v.is_valid
                 THEN [p EXCEPT !.email_address = EmailStrObject,
                                !.next_agent = Some("EmailAgent"),
                                !.awaiting_input = Some("email_address")]
                 ELSE [p EXCEPT !.final_response = Some("approval: please provide a valid email address"),
                                !.awaiting_input = Some("email_address")]
        ELSE [p EXCEPT !.next_agent = Some("EmailAgent")]

\* IntentRouter.HANDLERS
HANDLERS ==
    [get_balance |-> "BalanceHandler",
     get_statement |-> "StatementHandler",
     request_settlement_quote |-> "SettlementHandler",
     setup_payment_plan |-> "PaymentPlanHandler",
     query_payment_history |-> "PaymentHistoryHandler",
     query_guidelines |-> "UnknownIntentHandler",
     escalate_to_agent |-> "EscalateHandler",
     email_statement |-> "EmailStatementHandler",
     payment_date |-> "PaymentDateHandler",
     confirm_banking_details |-> "BankingDetailsHandler",
     unknown |-> "UnknownIntentHandler",
     create_payment_arrangement |-> "PaymentPlanHandler",
     request_settlement |-> "SettlementHandler",
     ask_balance |-> "BalanceHandler",
     small_talk |-> "SmallTalkHandler",
     other |-> "UnknownIntentHandler"]

\* A table whose default is the balance handler
_get_handler_default_balance(intent) ==
    IF intent \in DOMAIN HANDLERS THEN HANDLERS[intent] ELSE "BalanceHandler"

\* self.HANDLERS.get(intent, UnknownIntentHandler)
_get_handler(intent) ==
    IF intent \in DOMAIN HANDLERS THEN HANDLERS[intent] ELSE "UnknownIntentHandler"

\* handler.handle(context), by handler class
handle(handler, context) ==
    CASE handler = "BalanceHandler" -> BalanceHandler(context)
      [] handler = "StatementHandler" -> StatementHandler(context)
      [] handler = "SettlementHandler" -> SettlementHandler(context)
      [] handler = "PaymentPlanHandler" -> PaymentPlanHandler(context)
      [] handler = "PaymentHistoryHandler" -> PaymentHistoryHandler(context)
      [] handler = "EscalateHandler" -> EscalateHandler(context)
      [] handler = "EmailStatementHandler" -> EmailStatementHandler(context)
      [] handler = "PaymentDateHandler" -> PaymentDateHandler(context)
      [] handler = "BankingDetailsHandler" -> BankingDetailsHandler(context)
      [] handler = "SmallTalkHandler" -> SmallTalkHandler(context)
      [] handler = "PaymentPlanSetupHandler" -> PaymentPlanSetupHandler(context)
      [] OTHER -> UnknownIntentHandler(context)

\* IntentRouter.route
route(context) ==
    LET intent == IF context.intent = "" THEN "unknown" ELSE context.intent
        handler == _get_handler(intent)
    IN  handle(handler, [context EXCEPT !.agent_path = Append1(@, "IntentRouter")])

(***************************************************************************)
(* agents/data_agent.py                                                    *)
(***************************************************************************)
\* What get_linked_matter_details makes of each answer of the API
get_linked_matter_details(outcome) ==
    CASE outcome = "ok" ->
            DataAgentResult(TRUE, MatterDetails(300, 1000), None)
      [] outcome = "not_found" ->
            DataAgentResult(FALSE, NoneObj, Some("No account found for the provided ID number. Please check your ID and try again."))
      [] outcome = "api_exception" ->
            DataAgentResult(FALSE, NoneObj, Some("API error"))
      [] outcome = "empty_body" ->
            DataAgentResult(FALSE, NoneObj, Some("No account found for the provided ID number."))
      [] outcome = "http_status" ->
            DataAgentResult(FALSE, NoneObj, Some("API request failed: 500"))
      [] OTHER ->
            DataAgentResult(FALSE, NoneObj, Some("Network error"))

_build_account_response(details, context) ==
    IF context.intent \in {"get_balance", "ask_balance"}
    THEN "account: balance details"
    ELSE IF context.intent \in {"setup_payment_plan", "create_payment_arrangement"}
    THEN "account: summary and proposed plan"
    ELSE "account: details, how would you like to proceed"

WasntAble == "I wasn't able to retrieve your account information."

\* An update that marks the message understood whatever the lookup returned
_update_context_marks_understood(context, result) ==
    LET c == [context EXCEPT !.agent_path = Append1(@, "DataAgent"), !.understood_message = TRUE]
    IN  IF result.success /\ TruthyObj(result.matter_details)
        THEN [c EXCEPT !.final_response = Some(_build_account_response(result.matter_details, c))]
        ELSE [c EXCEPT !.final_response = Some(WasntAble)]

_update_context(context, result) ==
    LET c == [context EXCEPT !.agent_path = Append1(@, "DataAgent")]
    IN  IF result.success /\ TruthyObj(result.matter_details)
        THEN [c EXCEPT !.final_response = Some(_build_account_response(result.matter_details, c)),
                       !.understood_message = TRUE]
        ELSE [c EXCEPT !.final_response = Some(WasntAble)]

DataAgent_run_async(t, id_number) ==
    IF t.raised THEN {t}
    ELSE {LET result == get_linked_matter_details(outcome)
          IN  With(Called(t, <<"data_fetch", id_number, result.success>>),
                   _update_context(t.ctx, result))
          : outcome \in DataOutcomes}

(***************************************************************************)
(* agents/email_agent.py                                                   *)
(***************************************************************************)
EmailAgent_run_async(t) ==
    IF t.raised THEN {t}
    ELSE LET c == [t.ctx EXCEPT !.agent_path = Append1(@, "EmailAgent")]
         IN  IF ~TruthyChars(c.email_address) \/ ~TruthyObj(c.matter_details)
             THEN {With(t, [c EXCEPT !.final_response = Some("email: missing some information")])}
             ELSE {LET s == Called(t, <<"send_email", c.email_address[1]>>)
                   IN  IF outcome = "ok"
                       THEN IF c.proposed_amount = None
                            THEN Raise(With(s, c))   \* format(None, ',.2f') raises TypeError
                            ELSE With(s, [c EXCEPT !.final_response = Some("email: approval request submitted"),
                                                   !.understood_message = TRUE])
                       ELSE With(s, [c EXCEPT !.final_response = Some("email: wasn't able to submit")])
                   : outcome \in EmailOutcomes}

(***************************************************************************)
(* agents/response_agent.py                                                *)
(***************************************************************************)
\* ResponseAgent.REQUIRED_ENTITIES.get(intent, [])
REQUIRED_ENTITIES(intent) ==
    IF intent = "setup_payment_plan" THEN <<"amount", "frequency">>
    ELSE IF intent = "request_settlement_quote" THEN <<"amount">>
    ELSE << >>

\* The missing fields in the reverse of the order REQUIRED_ENTITIES lists them
_get_missing_entities_reversed(context) ==
    SelectSeq(IF context.intent = "setup_payment_plan" THEN <<"frequency", "amount">>
              ELSE REQUIRED_ENTITIES(context.intent),
              LAMBDA e : IF e = "amount" THEN ~TruthyNum(context.entities.amount)
                         ELSE ~TruthyStr(context.entities.frequency))

_get_missing_entities(context) ==
    SelectSeq(REQUIRED_ENTITIES(context.intent),
              LAMBDA e : IF e = "amount" THEN ~TruthyNum(context.entities.amount)
                         ELSE ~TruthyStr(context.entities.frequency))

\* ResponseAgent.CLARIFICATION_QUESTIONS
CLARIFICATION_QUESTIONS(field) ==
    IF field = "amount" THEN "fallback: How much would you like to pay?"
    ELSE "fallback: How often would you like to make payments?"

\* The TEMPLATES of _generate_fallback_response
TEMPLATES ==
    [get_balance |-> "fallback: I'll look up your current balance",
     get_statement |-> "fallback: I'll retrieve your statement",
     setup_payment_plan |-> "fallback: I can help you set up a payment plan",
     request_settlement_quote |-> "fallback: I'll calculate a settlement quote",
     query_payment_history |-> "fallback: Let me pull up your payment history",
     confirm_banking_details |-> "fallback: I'll confirm our banking details",
     email_statement |-> "fallback: I'll arrange for your statement to be emailed",
     payment_date |-> "fallback: Let me check when your next payment is due",
     escalate_to_agent |-> "fallback: Let me connect you with someone",
     unknown |-> "fallback: I'm not sure I understood your request"]

_generate_fallback_response(context) ==
    LET missing == _get_missing_entities(context)
    IN  IF missing # << >> THEN CLARIFICATION_QUESTIONS(missing[1])
        ELSE IF context.intent \in DOMAIN TEMPLATES THEN TEMPLATES[context.intent]
        ELSE TEMPLATES["unknown"]

ResponseAgent_run(t) ==
    IF t.raised THEN {t}
    ELSE {LET response == CASE outcome = "ok" -> "model: response"
                            [] outcome = "empty" -> ""
                            [] OTHER -> _generate_fallback_response(t.ctx)
          IN  With(Called(t, <<"response_model", outcome>>),
                   [t.ctx EXCEPT !.final_response = Some(response),
                                 !.agent_path = Append1(@, "ResponseAgent")])
          : outcome \in ResponseOutcomes}

(***************************************************************************)
(* orchestration/flow.py: run_orchestration, between the load and the save. *)
(***************************************************************************)
build_initial_context(request) ==
    NewContext(request.session_id, request.debtor_id, Some(request.message))

\* A resume that also takes the debtor from the request
ResumeOrCreate_rebind(existing_context, request) ==
    IF existing_context.py_type = "ConversationContext"
    THEN [ctx |-> [existing_context EXCEPT !.last_user_message = Some(request.message),
                                           !.debtor_id = request.debtor_id],
          raised |-> FALSE, calls |-> << >>, route_in |-> NoneObj, route_out |-> NoneObj]
    ELSE [ctx |-> build_initial_context(request),
          raised |-> existing_context.py_type = "dict" /\ DictTruthy(existing_context),
          calls |-> << >>, route_in |-> NoneObj, route_out |-> NoneObj]

\* Lines 81-92: resume the loaded context or start a fresh one.  A loaded value
\* that is a non-empty dict (one that did not validate) has no attribute to set.
ResumeOrCreate(existing_context, request) ==
    IF existing_context.py_type = "ConversationContext"
    THEN [ctx |-> [existing_context EXCEPT !.last_user_message = Some(request.message)],
          raised |-> FALSE, calls |-> << >>, route_in |-> NoneObj, route_out |-> NoneObj]
    ELSE [ctx |-> build_initial_context(request),
          raised |-> existing_context.py_type = "dict" /\ DictTruthy(existing_context),
          calls |-> << >>, route_in |-> NoneObj, route_out |-> NoneObj]

\* Lines 101-109: the email shortcut
EmailDetected(t) ==
    LET message == t.ctx.last_user_message
    IN  IF t.raised \/ ~(TruthyChars(message) /\ is_email(message[1])) THEN {t}
        ELSE EmailAgent_run_async(
                With(t, [t.ctx EXCEPT !.email_address = Some(strip(message[1])),
                                      !.intent = "provide_email",
                                      !.agent_path = Append(@, "Email Detected")]))

\* Lines 112-120: the ID-number shortcut
IdNumberDetected(t) ==
    LET id_number == remove(remove(strip(t.ctx.last_user_message[1]), " "), "-")
    IN  DataAgent_run_async(
            With(t, [t.ctx EXCEPT !.id_number = Some(id_number),
                                  !.intent = "get_balance",
                                  !.agent_path = Append(@, "ID Number Detected")]),
            id_number)

\* Lines 129-136: the awaited input, then the router
AwaitedInputAndRoute(t) ==
    IF t.raised THEN {t}
    ELSE LET c == IF t.ctx.awaiting_input = Some("id_number")
                  THEN [t.ctx EXCEPT !.id_number = Some(strip(t.ctx.last_user_message[1])),
                                     !.awaiting_input = None]
                  ELSE t.ctx
         IN  {[t EXCEPT !.ctx = route(c), !.route_in = c, !.route_out = route(c)]}

\* Lines 138-140
DataStage(t) ==
    IF ~t.raised /\ t.ctx.next_agent = Some("DataAgent") /\ TruthyChars(t.ctx.id_number)
    THEN DataAgent_run_async(t, t.ctx.id_number[1])
    ELSE {t}

\* The response stage run only when no final_response is held
ResponseStage_only_when_empty(t) ==
    IF ~t.raised /\ ~TruthyStr(t.ctx.final_response)
    THEN ResponseAgent_run(t)
    ELSE {t}

\* Lines 146-149
ResponseStage(t) ==
    IF ~t.raised /\ (~TruthyStr(t.ctx.final_response) \/ t.ctx.next_agent = Some("ResponseAgent"))
    THEN ResponseAgent_run(t)
    ELSE {t}

NormalFlow(t) ==
    LET classified == MasterAgent_run(t)
        extracted == UNION {NLUAgent_run(x) : x \in classified}
        routed == UNION {AwaitedInputAndRoute(x) : x \in extracted}
        fetched == UNION {DataStage(x) : x \in routed}
    IN  UNION {ResponseStage(x) : x \in fetched}

\* The flow without the ID-number shortcut
MainFlow_no_shortcut(t) ==
    IF t.raised THEN {t} ELSE NormalFlow(t)

MainFlow(t) ==
    IF t.raised THEN {t}
    ELSE IF TruthyChars(t.ctx.last_user_message) /\ is_id_number(t.ctx.last_user_message[1])
    THEN IdNumberDetected(t)
    ELSE NormalFlow(t)

\* Line 152
MarkComplete(t) ==
    IF t.raised THEN {t} ELSE {With(t, [t.ctx EXCEPT !.agent_path = Append(@, "Orchestrator")])}

GenericFallback == "I'm sorry, I couldn't process your request."

\* Lines 155-165
OrchestrationResponse(context) ==
    [py_type |-> "OrchestrationResponse",
     session_id |-> context.session_id,
     debtor_id |-> context.debtor_id,
     response |-> IF TruthyStr(context.final_response) THEN context.final_response[1]
                  ELSE GenericFallback,
     agent_path |-> context.agent_path,
     status |-> IF context.understood_message THEN "completed" ELSE "failed",
     intent |-> context.intent,
     next_agent |-> context.next_agent]

\* The turns run_orchestration can end in, from the loaded value and the request
run_orchestration(existing_context, request) ==
    LET started == EmailDetected(ResumeOrCreate(existing_context, request))
        done == UNION {MainFlow(x) : x \in started}
    IN  UNION {MarkComplete(x) : x \in done}

(***************************************************************************)
(* The store as a state machine.                                           *)
(***************************************************************************)
\* What an operation leaves in obs: the operation, its arguments and result, and
\* what the history said about the session just before it
Observe(op, session_id, arg, result) ==
    [op |-> op, sid |-> session_id, arg |-> arg, result |-> result,
     had |-> session_id \in DOMAIN saved,
     pre_saved_at |-> IF session_id \in DOMAIN saved_at THEN saved_at[session_id] ELSE -1,
     pre_access |-> IF session_id \in DOMAIN last_access THEN last_access[session_id] ELSE -1,
     pre_held |-> IF is_redis THEN _get_key(session_id) \in DOMAIN redis
                  ELSE session_id \in DOMAIN _store]

NoObservation(op) ==
    [op |-> op, sid |-> "", arg |-> NoneObj, result |-> NoneObj, had |-> FALSE,
     pre_saved_at |-> -1, pre_access |-> -1, pre_held |-> FALSE]

SetBackend(b) ==
    /\ _store' = b.st
    /\ _timestamps' = b.ts
    /\ redis' = b.rd
    /\ UNCHANGED <<routes_store, routes_timestamps, registered, _handler_cache>>

InitStore ==
    /\ is_redis \in BOOLEAN
    /\ _store = EmptyMap
    /\ _timestamps = EmptyMap
    /\ routes_store = EmptyMap
    /\ routes_timestamps = EmptyMap
    /\ registered = EmptyMap
    /\ _handler_cache = [r \in Routers |-> EmptyMap]
    /\ redis = EmptyMap
    /\ now = 0
    /\ obs = NoObservation("init")
    /\ saved = EmptyMap
    /\ saved_at = EmptyMap
    /\ last_access = EmptyMap
    /\ turns = 0
    /\ inflight = [w \in Workers |-> NoneObj]

\* Contexts handed to the store directly: the empty dict, a dict that is no
\* ConversationContext (debtor_id is missing), a context with nested objects
\* filled in and the dict form of it; the second session only stores the context
PartialDict == [py_type |-> "dict", session_id |-> "s1"]

FilledContext(session_id) ==
    [NewContext(session_id, "d1", Some(<<"h", "i">>)) EXCEPT
        !.intent = "setup_payment_plan",
        !.entities = NLUEntities(Some(250), Some("ZAR"), Some("monthly")),
        !.agent_path = <<"Master Agent", "NLUAgent">>,
        !.understood_message = TRUE,
        !.reasoning_result = ReasoningResult(Some("why")),
        !.matter_details = MatterDetails(300, 1000),
        !.awaiting_input = Some("id_number")]

StoreContexts(session_id) ==
    IF session_id = "s1"
    THEN {EmptyDict, PartialDict, FilledContext(session_id),
          model_dump(FilledContext(session_id))}
    ELSE {FilledContext(session_id)}

StoreSave(session_id, context) ==
    LET r == SessionStore_save(Backend, is_redis, session_id, context, now)
    IN  /\ SetBackend(r.b)
        /\ obs' = Observe("save", session_id, NoneObj, r.result)
        /\ saved' = IF r.result THEN Put(saved, session_id, context) ELSE saved
        /\ saved_at' = IF r.result THEN Put(saved_at, session_id, now) ELSE saved_at
        /\ last_access' = IF r.result THEN Put(last_access, session_id, now) ELSE last_access
        /\ UNCHANGED <<inflight, is_redis, now, turns>>

StoreLoad(session_id, context_class) ==
    LET r == SessionStore_load(Backend, is_redis, session_id, context_class, now)
    IN  /\ SetBackend(r.b)
        /\ obs' = Observe("load", session_id, context_class, r.result)
        /\ last_access' = IF r.result # NoneObj THEN Put(last_access, session_id, now)
                          ELSE last_access
        /\ UNCHANGED <<inflight, is_redis, now, turns, saved, saved_at>>

StoreExists(session_id) ==
    LET r == SessionStore_exists(Backend, is_redis, session_id, now)
    IN  /\ SetBackend(r.b)
        /\ obs' = Observe("exists", session_id, NoneObj, r.result)
        /\ UNCHANGED <<inflight, is_redis, now, turns, saved, saved_at, last_access>>

StoreDelete(session_id) ==
    LET r == SessionStore_delete(Backend, is_redis, session_id)
    IN  /\ SetBackend(r.b)
        /\ obs' = Observe("delete", session_id, NoneObj, r.result)
        /\ saved' = Pop(saved, session_id)
        /\ saved_at' = Pop(saved_at, session_id)
        /\ last_access' = Pop(last_access, session_id)
        /\ UNCHANGED <<inflight, is_redis, now, turns>>

\* The diagnostic calls; obs keeps the backend as it was before the call
StoreGetTtl(session_id) ==
    /\ obs' = Extend(Observe("get_ttl", session_id, NoneObj,
                              SessionStore_get_ttl(Backend, is_redis, session_id, now)),
                      [pre |-> Backend])
    /\ UNCHANGED <<registered, _handler_cache, routes_store, routes_timestamps, inflight, is_redis, _store, _timestamps, redis, now, turns, saved, saved_at,
                   last_access>>

StoreListSessions ==
    LET r == SessionStore_list_sessions(Backend, is_redis, now)
    IN  /\ SetBackend(r.b)
        /\ obs' = Extend(Observe("list_sessions", "", NoneObj, r.result), [pre |-> Backend])
        /\ last_access' = [sid \in DOMAIN last_access |->
                              IF is_redis /\ _get_key(sid) \in DOMAIN redis THEN now
                              ELSE last_access[sid]]
        /\ UNCHANGED <<inflight, is_redis, now, turns, saved, saved_at>>

StoreGetStats ==
    LET r == SessionStore_get_stats(Backend, is_redis, now)
    IN  /\ SetBackend(r.b)
        /\ obs' = Extend(Observe("get_stats", "", NoneObj, r.result), [pre |-> Backend])
        /\ UNCHANGED <<inflight, is_redis, now, turns, saved, saved_at, last_access>>

StoreClearAll ==
    LET r == SessionStore_clear_all_sessions(Backend, is_redis)
    IN  /\ SetBackend(r.b)
        /\ obs' = Extend(Observe("clear_all_sessions", "", NoneObj, r.result), [pre |-> Backend])
        /\ saved' = EmptyMap
        /\ saved_at' = EmptyMap
        /\ last_access' = EmptyMap
        /\ UNCHANGED <<inflight, is_redis, now, turns>>

\* Time passes, n ticks of it; the Redis server drops the keys whose time has come
Tick(n) ==
    /\ now + n <= MaxTime
    /\ now' = now + n
    /\ redis' = RedisExpire(redis, now + n)
    /\ obs' = NoObservation("tick")
    /\ UNCHANGED <<registered, _handler_cache, routes_store, routes_timestamps, inflight, is_redis, _store, _timestamps, saved, saved_at, last_access, turns>>

NextStore ==
    \/ \E sid \in SessionIds : \E c \in StoreContexts(sid) : StoreSave(sid, c)
    \/ \E sid \in SessionIds : \E cls \in BOOLEAN : StoreLoad(sid, cls)
    \/ \E sid \in SessionIds : StoreExists(sid)
    \/ \E sid \in SessionIds : StoreDelete(sid)
    \/ \E sid \in SessionIds : StoreGetTtl(sid)
    \/ StoreListSessions
    \/ StoreGetStats
    \/ StoreClearAll
    \/ Tick(1)

SpecStore == InitStore /\ [][NextStore]_vars

(***************************************************************************)
(* Claims about the store.                                                 *)
(***************************************************************************)
\* The fields of a context, whatever its Python type (model or dict)
FieldsOf(v) == IF v.py_type = "ConversationContext" THEN model_dump(v) ELSE v

C2_ExpiredIsAbsent ==
    (obs.op \in {"load", "exists"} /\ (obs.pre_access < 0 \/ now - obs.pre_access > ttl_seconds)) =>
        /\ obs.result = IF obs.op = "load" THEN NoneObj ELSE FALSE
        /\ obs.sid \notin DOMAIN _store
        /\ obs.sid \notin DOMAIN _timestamps
        /\ _get_key(obs.sid) \notin DOMAIN redis

C2_Witness ==
    /\ obs.op \in {"load", "exists"}
    /\ ~is_redis
    /\ obs.pre_held
    /\ obs.pre_access >= 0
    /\ now - obs.pre_access > ttl_seconds

\* C3 (as claimed): after a save, and after a load that returned the session, the
\* remaining TTL of the session is the full window, whatever was stored.
C3_AccessResetsTtl ==
    ((obs.op = "save" /\ obs.result = TRUE) \/ (obs.op = "load" /\ obs.result # NoneObj)) =>
        SessionStore_get_ttl(Backend, is_redis, obs.sid, now) = ttl_seconds

\* C13 (as claimed): after get_ttl, list_sessions or get_stats, every session
\* that was live before the call is still held, with the same content and the
\* same remaining TTL.
C13_DiagnosticsReadOnly ==
    obs.op \in {"get_ttl", "list_sessions", "get_stats"} =>
        \A sid \in SessionIds :
            Live(obs.pre, is_redis, sid, now) =>
                /\ Live(Backend, is_redis, sid, now)
                /\ Stored(Backend, is_redis, sid) = Stored(obs.pre, is_redis, sid)
                /\ SessionStore_get_ttl(Backend, is_redis, sid, now)
                      = SessionStore_get_ttl(obs.pre, is_redis, sid, now)

\* C12 (as claimed): save and delete answer with a boolean, a load asked for a
\* ConversationContext answers with one or with None, and a turn that starts
\* from a load that gave no context runs as the first turn of a new session.
C12_StoreFailuresAreValues ==
    /\ (obs.op \in {"save", "delete"} => (obs.result = TRUE \/ obs.result = FALSE))
    /\ (obs.op = "load" /\ obs.arg = TRUE) =>
            /\ obs.result.py_type \in {"NoneType", "ConversationContext"}
            /\ (obs.result.py_type # "ConversationContext" =>
                    LET request == [session_id |-> obs.sid, debtor_id |-> "d1",
                                    message |-> << >>]
                    IN  run_orchestration(obs.result, request)
                            = run_orchestration(NoneObj, request))

(***************************************************************************)
(* The service: turns of run_orchestration over the store, and time.       *)
(***************************************************************************)
MsgText == <<"h", "i">>
MsgEmpty == << >>
MsgIdNumber == <<"8", "0", "0", "1", "0", "1", "5", "0", "0", "9", "0", "8", "7">>
MsgEmail == <<"a", "@", "b", ".", "c", "o">>
\* The second session is a bystander: it only ever sends its ID number
Messages(session_id) ==
    IF session_id = "s1" THEN {MsgText, MsgEmpty, MsgIdNumber, MsgEmail} ELSE {MsgIdNumber}

DebtorIds == {"d1"}

\* One request: load, the pipeline, and (unless an exception escaped) the save
TurnUpTo(bound, session_id, debtor_id, message) ==
    LET request == [session_id |-> session_id, debtor_id |-> debtor_id, message |-> message]
        l == SessionStore_load(Backend, is_redis, session_id, TRUE, now)
    IN  \E t \in run_orchestration(l.result, request) :
            LET s == IF t.raised THEN [b |-> l.b, result |-> FALSE]
                     ELSE SessionStore_save(l.b, is_redis, session_id, t.ctx, now)
            IN  /\ turns < bound
                /\ turns' = turns + 1
                /\ SetBackend(s.b)
                /\ obs' = Extend([op |-> "turn", arg |-> request, result |-> NoneObj,
                                  loaded |-> l.result,
                                  raised |-> t.raised,
                                  calls |-> t.calls,
                                  route_in |-> t.route_in,
                                  route_out |-> t.route_out,
                                  ctx |-> IF t.raised THEN NoneObj ELSE t.ctx,
                                  response |-> IF t.raised THEN NoneObj
                                               ELSE OrchestrationResponse(t.ctx),
                                  save_ok |-> s.result],
                                 Observe("turn", session_id, NoneObj, NoneObj))
                /\ saved' = IF s.result THEN Put(saved, session_id, t.ctx) ELSE saved
                /\ saved_at' = IF s.result THEN Put(saved_at, session_id, now) ELSE saved_at
                /\ last_access' = IF s.result \/ l.result # NoneObj
                                  THEN Put(last_access, session_id, now) ELSE last_access
                /\ UNCHANGED <<inflight, is_redis, now>>

Turn(session_id, debtor_id, message) == TurnUpTo(MaxTurns, session_id, debtor_id, message)

Init == InitStore

Next ==
    \/ \E sid \in SessionIds : \E d \in DebtorIds : \E m \in Messages(sid) : Turn(sid, d, m)
    \/ Tick(ttl_seconds + 1)

Spec == Init /\ [][Next]_vars

\* C39 (as claimed): after every step of the store and for every session,
\* get_ttl returns -2 exactly when exists returns FALSE, and a value from 0 to
\* ttl_seconds when exists returns TRUE; and a get_ttl or an exists call leaves
\* the remaining time of every session as it was.
C39_TtlAgreesWithExists ==
    [][\A sid \in SessionIds :
            /\ (SessionStore_get_ttl(Backend, is_redis, sid, now)' = -2)
                    <=> ~SessionStore_exists(Backend, is_redis, sid, now)'.result
            /\ SessionStore_exists(Backend, is_redis, sid, now)'.result =>
                    SessionStore_get_ttl(Backend, is_redis, sid, now)' \in 0..ttl_seconds
            /\ (obs'.op \in {"get_ttl", "exists"} /\ Live(Backend, is_redis, sid, now)) =>
                    SessionStore_get_ttl(Backend, is_redis, sid, now)'
                        = SessionStore_get_ttl(Backend, is_redis, sid, now)
      ]_vars

\* C40: in the in-memory backend, after every operation, the session ids that
\* hold data are the session ids that hold a timestamp.
C40_StoreAndTimestampsAligned ==
    ~is_redis => DOMAIN _store = DOMAIN _timestamps

\* A save of one session that swept another, expired one
C40_Witness ==
    /\ ~is_redis
    /\ obs.op = "save"
    /\ obs.sid = "s2"
    /\ obs.result = TRUE
    /\ "s1" \in DOMAIN saved
    /\ DOMAIN _store = {"s2"}
    /\ DOMAIN _timestamps = {"s2"}

\* C31: in every step of the store, (1) after delete(session_id) the session is
\* not held: load returns None and exists returns FALSE; (2) a session that is
\* not held becomes held only by a save of it; (3) a session that is held stops
\* being held only by a delete of it, by clear_all_sessions, or by time passing.
C31_DeleteAndNothingElse ==
    [][\A sid \in SessionIds :
            /\ (obs'.op = "delete" /\ obs'.sid = sid) =>
                    /\ obs'.result = TRUE
                    /\ ~Live(Backend, is_redis, sid, now)'
                    /\ SessionStore_load(Backend, is_redis, sid, TRUE, now)'.result = NoneObj
                    /\ SessionStore_exists(Backend, is_redis, sid, now)'.result = FALSE
            /\ (~Live(Backend, is_redis, sid, now) /\ Live(Backend, is_redis, sid, now)') =>
                    (obs'.op = "save" /\ obs'.sid = sid)
            /\ (Live(Backend, is_redis, sid, now) /\ ~Live(Backend, is_redis, sid, now)') =>
                    \/ (obs'.op = "delete" /\ obs'.sid = sid)
                    \/ obs'.op = "clear_all_sessions"
                    \/ (obs'.op = "tick" /\ now' > now)
      ]_vars

C31_Witness ==
    /\ obs.op = "delete"
    /\ obs.sid = "s1"
    /\ obs.pre_held
    /\ obs.had
    /\ ~Live(Backend, is_redis, "s1", now)
    /\ Live(Backend, is_redis, "s2", now)
    /\ SessionStore_get_ttl(Backend, is_redis, "s2", now) < ttl_seconds

(***************************************************************************)
(* The two backends side by side: every call is made on an in-memory store *)
(* (_store, _timestamps) and on a Redis store (redis) at the same time;    *)
(* obs keeps both results.                                                 *)
(***************************************************************************)
BothObserve(op, session_id, arg, memory, durable) ==
    Extend([result_redis |-> durable.result], Observe(op, session_id, arg, memory.result))

SetBoth(memory, durable) ==
    /\ _store' = memory.b.st
    /\ _timestamps' = memory.b.ts
    /\ redis' = durable.b.rd
    /\ UNCHANGED <<routes_store, routes_timestamps, registered, _handler_cache>>

BothSave(session_id, context) ==
    /\ SetBoth(SessionStore_save(Backend, FALSE, session_id, context, now),
               SessionStore_save(Backend, TRUE, session_id, context, now))
    /\ obs' = BothObserve("save", session_id, NoneObj,
                          SessionStore_save(Backend, FALSE, session_id, context, now),
                          SessionStore_save(Backend, TRUE, session_id, context, now))
    /\ UNCHANGED <<inflight, is_redis, now, turns, saved, saved_at, last_access>>

BothLoad(session_id, context_class) ==
    /\ SetBoth(SessionStore_load(Backend, FALSE, session_id, context_class, now),
               SessionStore_load(Backend, TRUE, session_id, context_class, now))
    /\ obs' = BothObserve("load", session_id, context_class,
                          SessionStore_load(Backend, FALSE, session_id, context_class, now),
                          SessionStore_load(Backend, TRUE, session_id, context_class, now))
    /\ UNCHANGED <<inflight, is_redis, now, turns, saved, saved_at, last_access>>

BothExists(session_id) ==
    /\ SetBoth(SessionStore_exists(Backend, FALSE, session_id, now),
               SessionStore_exists(Backend, TRUE, session_id, now))
    /\ obs' = BothObserve("exists", session_id, NoneObj,
                          SessionStore_exists(Backend, FALSE, session_id, now),
                          SessionStore_exists(Backend, TRUE, session_id, now))
    /\ UNCHANGED <<inflight, is_redis, now, turns, saved, saved_at, last_access>>

BothDelete(session_id) ==
    /\ SetBoth(SessionStore_delete(Backend, FALSE, session_id),
               SessionStore_delete(Backend, TRUE, session_id))
    /\ obs' = BothObserve("delete", session_id, NoneObj,
                          SessionStore_delete(Backend, FALSE, session_id),
                          SessionStore_delete(Backend, TRUE, session_id))
    /\ UNCHANGED <<inflight, is_redis, now, turns, saved, saved_at, last_access>>

InitBoth == InitStore /\ ~is_redis

NextBoth ==
    \/ \E sid \in SessionIds : \E c \in StoreContexts(sid) : BothSave(sid, c)
    \/ \E sid \in SessionIds : \E cls \in BOOLEAN : BothLoad(sid, cls)
    \/ \E sid \in SessionIds : BothExists(sid)
    \/ \E sid \in SessionIds : BothDelete(sid)
    \/ Tick(1)

SpecBoth == InitBoth /\ [][NextBoth]_vars

\* C23 (as claimed): made on both backends, every save, load, exists and delete
\* returns the same result from both, and at every moment the two hold the same
\* live sessions.
C23_BackendsInterchangeable ==
    /\ (obs.op \in {"save", "load", "exists", "delete"} => obs.result = obs.result_redis)
    /\ \A sid \in SessionIds :
            Live(Backend, FALSE, sid, now) = Live(Backend, TRUE, sid, now)

(***************************************************************************)
(* Claims about the turns.                                                 *)
(***************************************************************************)
IsTurn == obs.op = "turn"
Routed == IsTurn /\ obs.route_out.py_type = "ConversationContext"
MadeCall(name) == \E i \in 1..Len(obs.calls) : obs.calls[i][1] = name
FetchedFor(id_number) ==
    \E i \in 1..Len(obs.calls) : obs.calls[i][1] = "data_fetch" /\ obs.calls[i][2] = id_number

\* C4: a turn on a session whose stored context awaits the ID number, with a bare
\* 13-digit message, stores the message as id_number (in the context the turn
\* ends with and in the one it saves), makes no classifier call and fetches the
\* account data for that ID number.
C4_AwaitedIdNumberConsumed ==
    (/\ IsTurn
     /\ obs.loaded.py_type = "ConversationContext"
     /\ obs.loaded.awaiting_input = Some("id_number")
     /\ obs.arg.message = MsgIdNumber) =>
        /\ ~obs.raised
        /\ obs.ctx.id_number = Some(MsgIdNumber)
        /\ obs.save_ok /\ saved[obs.sid].id_number = Some(MsgIdNumber)
        /\ ~MadeCall("classifier")
        /\ FetchedFor(MsgIdNumber)

C4_Witness ==
    /\ IsTurn
    /\ obs.loaded.py_type = "ConversationContext"
    /\ obs.loaded.awaiting_input = Some("id_number")
    /\ obs.loaded.id_number = None
    /\ obs.arg.message = MsgIdNumber
    /\ FetchedFor(MsgIdNumber)

\* C5: a first turn (nothing loaded) classified setup_payment_plan, with an amount
\* and a frequency extracted and no id_number in the context handed to the
\* router, answers with the request for the ID number, saves awaiting_input =
\* "id_number", reports no next agent and fetches no account data.
C5_FirstPlanTurnAsksForId ==
    (/\ Routed
     /\ obs.loaded.py_type = "NoneType"
     /\ obs.route_in.intent = "setup_payment_plan"
     /\ TruthyNum(obs.route_in.entities.amount)
     /\ TruthyStr(obs.route_in.entities.frequency)
     /\ ~TruthyChars(obs.route_in.id_number)) =>
        /\ obs.response.response = "payment plan: please provide your ID number"
        /\ obs.save_ok /\ saved[obs.sid].awaiting_input = Some("id_number")
        /\ obs.response.next_agent = None
        /\ ~MadeCall("data_fetch")

C5_Witness ==
    /\ Routed
    /\ obs.loaded.py_type = "NoneType"
    /\ obs.route_in.intent = "setup_payment_plan"
    /\ obs.route_in.entities.amount = Some(250)
    /\ obs.route_in.entities.frequency = Some("monthly")
    /\ obs.route_in.id_number = None
    /\ saved[obs.sid].awaiting_input = Some("id_number")

\* C6: when the router is handed intent get_balance: without an id_number it sets
\* awaiting_input = "id_number" and no next agent, writes the request for the ID
\* number, and the turn fetches no account data; with an id_number it sets
\* next_agent = "DataAgent" and leaves final_response as it found it.
C6_BalanceGate ==
    (Routed /\ obs.route_in.intent = "get_balance") =>
        IF ~TruthyChars(obs.route_in.id_number)
        THEN /\ obs.route_out.awaiting_input = Some("id_number")
             /\ obs.route_out.next_agent = None
             /\ obs.route_out.final_response = Some("balance: please provide your ID number")
             /\ ~MadeCall("data_fetch")
        ELSE /\ obs.route_out.next_agent = Some("DataAgent")
             /\ obs.route_out.final_response = obs.route_in.final_response

C6_Witness ==
    /\ Routed
    /\ obs.route_in.intent = "get_balance"
    /\ obs.route_in.id_number = Some(MsgIdNumber)
    /\ obs.route_out.next_agent = Some("DataAgent")
    /\ FetchedFor(MsgIdNumber)

\* C7: when the router is handed intent setup_payment_plan with the amount or the
\* frequency missing (None, zero or empty), whether or not an id_number is there:
\* it does not set awaiting_input = "id_number", it names the response agent and
\* not the data agent as the next one, and the turn fetches no account data and
\* calls the response generation.
C7_MissingPlanDetailsDefer ==
    (/\ Routed
     /\ obs.route_in.intent = "setup_payment_plan"
     /\ (~TruthyNum(obs.route_in.entities.amount) \/ ~TruthyStr(obs.route_in.entities.frequency))) =>
        /\ obs.route_out.awaiting_input # Some("id_number")
        /\ obs.route_out.awaiting_input = obs.route_in.awaiting_input
        /\ obs.route_out.next_agent = Some("ResponseAgent")
        /\ ~MadeCall("data_fetch")
        /\ MadeCall("response_model")

C7_Witness ==
    /\ Routed
    /\ obs.route_in.intent = "setup_payment_plan"
    /\ obs.route_in.entities.amount = Some(0)
    /\ obs.route_in.entities.frequency = Some("monthly")
    /\ obs.route_in.id_number = Some(MsgIdNumber)
    /\ obs.route_out.next_agent = Some("ResponseAgent")
    /\ MadeCall("response_model")

\* C9 (as claimed): every turn returns a response whose text is not empty: the
\* final_response of the context when it is set, the generic fallback otherwise.
C9_OneResponsePerTurn ==
    IsTurn =>
        /\ obs.response.py_type = "OrchestrationResponse"
        /\ obs.response.response # ""
        /\ obs.response.response = IF TruthyStr(obs.ctx.final_response)
                                   THEN obs.ctx.final_response[1] ELSE GenericFallback

\* C10 (as claimed): whichever collaborator fails, no turn ends in an exception:
\* each returns a response.
C10_NoTurnRaises ==
    IsTurn => (~obs.raised /\ obs.response # NoneObj)

\* The dict the store holds for a session now
StoredDict(session_id) ==
    IF is_redis THEN json_loads(Stored(Backend, is_redis, session_id))
    ELSE Stored(Backend, is_redis, session_id)

Proposed(label) ==
    \E i \in 1..Len(obs.calls) : obs.calls[i][1] = "classifier" /\ obs.calls[i][2] = label

\* C11 (as claimed): in a turn whose classifier ran, the router is handed an intent
\* of the closed set; and when the model proposed a label outside the set the
\* turn goes on (to the extractor or the router) with intent "unknown".
C11_ClassifierStaysInSet ==
    (IsTurn /\ MadeCall("classifier")) =>
        /\ (Routed => obs.route_in.intent \in IntentType)
        /\ (Proposed("small_talk") =>
                /\ (Routed \/ MadeCall("extractor"))
                /\ (Routed => obs.route_in.intent = "unknown"))

\* C17 (as claimed): a turn on a session whose stored context awaits the ID
\* number, with a message that is neither an ID number nor an email address,
\* does not advance: id_number and awaiting_input end the turn with the values
\* they were loaded with, and no account data is fetched.
C17_MalformedInputDoesNotAdvance ==
    (/\ IsTurn
     /\ ~obs.raised
     /\ obs.loaded.py_type = "ConversationContext"
     /\ obs.loaded.awaiting_input = Some("id_number")
     /\ ~is_id_number(obs.arg.message)
     /\ ~is_email(obs.arg.message)) =>
        /\ obs.ctx.id_number = obs.loaded.id_number
        /\ obs.ctx.awaiting_input = obs.loaded.awaiting_input
        /\ ~MadeCall("data_fetch")

\* The account lookup was made in this turn and came back with the account
LookupSucceeded ==
    \E i \in 1..Len(obs.calls) : obs.calls[i][1] = "data_fetch" /\ obs.calls[i][3]

\* C18 (as claimed): a turn with a successful account lookup ends with
\* matter_details present in its context and in the stored context; a turn
\* without one ends with the matter_details it loaded (absent for a new session).
C18_MatterDetailsFollowLookup ==
    (IsTurn /\ ~obs.raised) =>
        LET before == IF obs.loaded.py_type = "ConversationContext"
                      THEN obs.loaded.matter_details ELSE NoneObj
        IN  IF LookupSucceeded
            THEN /\ TruthyObj(obs.ctx.matter_details)
                 /\ StoredDict(obs.sid).matter_details.py_type # "NoneType"
            ELSE obs.ctx.matter_details = before

NoDuplicates(path) ==
    \A i, j \in 1..Len(path) : path[i] = path[j] => i = j

\* C19 (as claimed): the agent_path a turn ends with, returns and stores names
\* each stage at most once.
C19_AgentPathDeduplicated ==
    (IsTurn /\ ~obs.raised) =>
        /\ NoDuplicates(obs.ctx.agent_path)
        /\ NoDuplicates(obs.response.agent_path)
        /\ NoDuplicates(StoredDict(obs.sid).agent_path)

\* The paths the stages of this turn write when they start from an empty path:
\* the same turn (same request, same loaded fields, same external answers) run
\* on the loaded context with its agent_path emptied
StagesOfThisTurn ==
    LET fresh == IF obs.loaded.py_type = "ConversationContext"
                 THEN [obs.loaded EXCEPT !.agent_path = << >>]
                 ELSE obs.loaded
    IN  {t.ctx.agent_path : t \in {u \in run_orchestration(fresh, obs.arg) :
                                      ~u.raised /\ u.calls = obs.calls}}

\* C20 (as claimed): the agent_path a turn returns is the list of the stages that
\* ran in this turn, in the order they ran, and nothing from earlier turns.
C20_AgentPathIsThisTurn ==
    (IsTurn /\ ~obs.raised) => obs.response.agent_path \in StagesOfThisTurn

\* C26 (as claimed): in a turn that returns, when the router has written
\* final_response and has not redirected to the response agent, the turn ends
\* with the router's final_response; and when the email shortcut has written it
\* and the router has not redirected to the response agent, the turn ends with
\* the email agent's final_response.
C26_FinalResponseSetOnce ==
    (IsTurn /\ ~obs.raised /\ Routed /\ obs.route_out.next_agent # Some("ResponseAgent")) =>
        /\ (obs.route_out.final_response # obs.route_in.final_response =>
                obs.ctx.final_response = obs.route_out.final_response)
        /\ (is_email(obs.arg.message) =>
                obs.ctx.final_response = obs.route_in.final_response)

\* understood_message as the data stage found it: what the router returned or,
\* on the ID-number shortcut, what the session held
UnderstoodBeforeData ==
    IF Routed THEN obs.route_out.understood_message
    ELSE IF obs.loaded.py_type = "ConversationContext" THEN obs.loaded.understood_message
    ELSE FALSE

\* C28: every failed answer of the lookup is a result with success = FALSE and an
\* error message; a turn whose lookup failed returns (no exception), its
\* response is the "wasn't able to retrieve" text, and understood_message is as
\* the data stage found it.
C28_FailedLookupIsAValue ==
    /\ \A outcome \in DataOutcomes \ {"ok"} :
            /\ get_linked_matter_details(outcome).success = FALSE
            /\ get_linked_matter_details(outcome).matter_details = NoneObj
            /\ TruthyStr(get_linked_matter_details(outcome).error_message)
    /\ (IsTurn /\ MadeCall("data_fetch") /\ ~LookupSucceeded) =>
            /\ ~obs.raised
            /\ obs.ctx.final_response = Some(WasntAble)
            /\ obs.response.response = WasntAble
            /\ obs.ctx.understood_message = UnderstoodBeforeData
            /\ obs.response.status = IF UnderstoodBeforeData THEN "completed" ELSE "failed"

C28_Witness ==
    /\ IsTurn
    /\ MadeCall("data_fetch")
    /\ ~LookupSucceeded
    /\ ~Routed
    /\ obs.response.response = WasntAble
    /\ obs.response.status = "failed"

\* C32 (as claimed): the context a turn stores has no id_number, or one of
\* exactly 13 digits.
C32_StoredIdNumberWellFormed ==
    (IsTurn /\ ~obs.raised /\ obs.save_ok) =>
        LET stored == StoredDict(obs.sid).id_number
        IN  \/ stored = None
            \/ /\ Len(stored[1]) = 13
               /\ \A i \in 1..Len(stored[1]) : stored[1][i] \in Digits

\* C33 (as claimed): a turn that captured the ID number, by the 13-digit
\* shortcut or by taking a non-empty message as the awaited input, ends with
\* and stores a context whose awaiting_input is not "id_number".
C33_CaptureClearsAwaiting ==
    (/\ IsTurn
     /\ ~obs.raised
     /\ \/ is_id_number(obs.arg.message)
        \/ /\ obs.loaded.py_type = "ConversationContext"
           /\ obs.loaded.awaiting_input = Some("id_number")
           /\ strip(obs.arg.message) # << >>) =>
        /\ obs.ctx.awaiting_input # Some("id_number")
        /\ StoredDict(obs.sid).awaiting_input # Some("id_number")

\* C34: a turn on a session that is held, and whose stored context has
\* understood_message true, reports status "completed" and stores a context
\* with understood_message true, whatever its message, classification and
\* entities are.
C34_UnderstoodNeverReset ==
    [][\A sid \in SessionIds :
            (/\ obs'.op = "turn"
             /\ obs'.sid = sid
             /\ ~obs'.raised
             /\ Live(Backend, is_redis, sid, now)
             /\ StoredDict(sid).understood_message) =>
                /\ obs'.response.status = "completed"
                /\ obs'.ctx.understood_message
                /\ obs'.save_ok
                /\ StoredDict(sid)'.understood_message
      ]_vars

C34_Witness ==
    /\ IsTurn
    /\ ~obs.raised
    /\ obs.loaded.py_type = "ConversationContext"
    /\ obs.loaded.understood_message
    /\ \E i \in 1..Len(obs.calls) : obs.calls[i] = <<"classifier", "unknown">>
    /\ obs.response.status = "completed"
    /\ StoredDict(obs.sid).understood_message

\* The turn of obs run again from the loaded context with its final_response
\* replaced by a mark no stage writes: the stages test final_response for
\* truthiness only, so the rerun takes the same path, and a reply equal to the
\* mark is the loaded reply passed through
PreviousReply == "<reply of the previous turn>"

RerunMarked ==
    run_orchestration([obs.loaded EXCEPT !.final_response = Some(PreviousReply)], obs.arg)

\* The outcomes of the rerun that are the turn of obs
RerunOfThisTurn ==
    {t \in RerunMarked :
        /\ ~t.raised
        /\ t.calls = obs.calls
        /\ t.ctx.agent_path = obs.ctx.agent_path
        /\ t.ctx.intent = obs.ctx.intent
        /\ t.ctx.entities = obs.ctx.entities}

LoadedAReply ==
    /\ IsTurn
    /\ ~obs.raised
    /\ obs.loaded.py_type = "ConversationContext"
    /\ TruthyStr(obs.loaded.final_response)

\* C35: a turn that loaded a context holding the previous reply returns a
\* response written during the turn: run from the loaded context with that
\* reply marked, the turn does not return the mark, and what it writes is what
\* the turn of obs returned.
C35_ResponseIsThisTurns ==
    LoadedAReply =>
        /\ RerunOfThisTurn # {}
        /\ \A t \in RerunOfThisTurn :
                /\ OrchestrationResponse(t.ctx).response # PreviousReply
                /\ OrchestrationResponse(t.ctx).response = obs.response.response

\* A turn that loaded a reply, was routed to a handler that writes none and
\* asks for the response agent, and returned what the response agent wrote
C35_Witness ==
    /\ LoadedAReply
    /\ Routed
    /\ obs.route_out.final_response = obs.route_in.final_response
    /\ obs.route_out.next_agent = Some("ResponseAgent")
    /\ MadeCall("response_model")
    /\ obs.response.response # obs.loaded.final_response[1]

EmailAgentReplies == {"email: approval request submitted", "email: wasn't able to submit"}

\* C36 (as claimed): the turn after a turn whose account lookup succeeded, on
\* the same session while it is held, with a valid email address as message,
\* sends the approval request and returns what EmailAgent wrote after sending.
C36_EmailAfterLookupSends ==
    [][(/\ IsTurn
        /\ ~obs.raised
        /\ obs.save_ok
        /\ LookupSucceeded
        /\ obs'.op = "turn"
        /\ obs'.sid = obs.sid
        /\ obs'.arg.message = MsgEmail
        /\ Live(Backend, is_redis, obs.sid, now)) =>
            /\ ~obs'.raised
            /\ \E i \in 1..Len(obs'.calls) : obs'.calls[i][1] = "send_email"
            /\ obs'.response.response \in EmailAgentReplies
      ]_vars

(***************************************************************************)
(* routes/routes.py: the diagnostic endpoints.  The module builds its own  *)
(* SessionStore() at import (line 25), next to the one flow.py builds      *)
(* (flow.py line 30).  With Redis the two instances talk to one server;    *)
(* without it each has its own InMemorySessionStore, and the endpoints     *)
(* work on routes_store and routes_timestamps.                             *)
(***************************************************************************)
\* routes.session_store._backend
RoutesBackend == [st |-> routes_store, ts |-> routes_timestamps, rd |-> redis]

SetRoutesBackend(b) ==
    /\ routes_store' = b.st
    /\ routes_timestamps' = b.ts
    /\ redis' = b.rd
    /\ UNCHANGED <<_store, _timestamps, registered, _handler_cache>>

NotFound == [py_type |-> "HTTPException", status_code |-> 404]

\* GET /sessions
list_sessions ==
    LET r == SessionStore_list_sessions(RoutesBackend, is_redis, now)
    IN  /\ SetRoutesBackend(r.b)
        /\ obs' = Extend(Observe("GET /sessions", "", NoneObj,
                                  [total |-> Cardinality(r.result), sessions |-> r.result]),
                          [pre |-> Backend])
        /\ last_access' = [sid \in DOMAIN last_access |->
                              IF is_redis /\ _get_key(sid) \in DOMAIN redis THEN now
                              ELSE last_access[sid]]
        /\ UNCHANGED <<inflight, is_redis, now, turns, saved, saved_at>>

\* GET /sessions/{session_id}
get_session(session_id) ==
    LET l == SessionStore_load(RoutesBackend, is_redis, session_id, FALSE, now)
        found == l.result # NoneObj /\ DictTruthy(l.result)
    IN  /\ SetRoutesBackend(l.b)
        /\ obs' = Extend(Observe("GET /sessions/{session_id}", session_id, NoneObj,
                                  IF ~found THEN NotFound
                                  ELSE [session_id |-> session_id,
                                        ttl_seconds |-> SessionStore_get_ttl(l.b, is_redis,
                                                                             session_id, now),
                                        data |-> l.result]),
                          [pre |-> Backend])
        /\ last_access' = IF is_redis /\ l.result # NoneObj
                          THEN Put(last_access, session_id, now) ELSE last_access
        /\ UNCHANGED <<inflight, is_redis, now, turns, saved, saved_at>>

\* DELETE /sessions/{session_id}
delete_session(session_id) ==
    LET e == SessionStore_exists(RoutesBackend, is_redis, session_id, now)
        d == SessionStore_delete(e.b, is_redis, session_id)
    IN  IF ~e.result
        THEN /\ SetRoutesBackend(e.b)
             /\ obs' = Extend(Observe("DELETE /sessions/{session_id}", session_id, NoneObj,
                                       NotFound),
                               [pre |-> Backend])
             /\ UNCHANGED <<inflight, is_redis, now, turns, saved, saved_at, last_access>>
        ELSE /\ SetRoutesBackend(d.b)
             /\ obs' = Extend(Observe("DELETE /sessions/{session_id}", session_id, NoneObj,
                                       [success |-> d.result]),
                               [pre |-> Backend])
             /\ saved' = IF is_redis THEN Pop(saved, session_id) ELSE saved
             /\ saved_at' = IF is_redis THEN Pop(saved_at, session_id) ELSE saved_at
             /\ last_access' = IF is_redis THEN Pop(last_access, session_id) ELSE last_access
             /\ UNCHANGED <<inflight, is_redis, now, turns>>

DiagnosticsMessages == {MsgText, MsgIdNumber}

NextDiagnostics ==
    \/ \E sid \in SessionIds : \E m \in DiagnosticsMessages : Turn(sid, "d1", m)
    \/ list_sessions
    \/ \E sid \in SessionIds : get_session(sid)
    \/ \E sid \in SessionIds : delete_session(sid)

SpecDiagnostics == Init /\ [][NextDiagnostics]_vars

\* The dict the store held for a session before the last operation
StoredDictBefore(session_id) ==
    IF is_redis THEN json_loads(Stored(obs.pre, is_redis, session_id))
    ELSE Stored(obs.pre, is_redis, session_id)

\* The sessions the orchestration's store held when the endpoint was called
HeldBefore == {sid \in SessionIds : Live(obs.pre, is_redis, sid, now)}

\* C37 (as claimed): the diagnostic endpoints see what run_orchestration saved,
\* under either backend: GET /sessions lists exactly the sessions the
\* orchestration's store holds, GET /sessions/{id} of a held session returns
\* its stored context, and DELETE /sessions/{id} of a held session succeeds and
\* the orchestration's store no longer holds it.
C37_DiagnosticsSeeOrchestration ==
    /\ obs.op = "GET /sessions" =>
            {x.session_id : x \in obs.result.sessions} = HeldBefore
    /\ (obs.op = "GET /sessions/{session_id}" /\ obs.sid \in HeldBefore) =>
            /\ obs.result # NotFound
            /\ obs.result.data = StoredDictBefore(obs.sid)
    /\ (obs.op = "DELETE /sessions/{session_id}" /\ obs.sid \in HeldBefore) =>
            /\ obs.result # NotFound
            /\ obs.result.success
            /\ ~Live(Backend, is_redis, obs.sid, now)

(***************************************************************************)
(* A longer conversation on one session: up to MaxConversation requests    *)
(* for session s1, which may name different debtors, with no expiry in     *)
(* between.                                                                *)
(***************************************************************************)
MaxConversation == 3

ConversationMessages == {MsgText, MsgIdNumber}
ConversationDebtors == {"d1", "d2"}

Converse(debtor_id, message) == TurnUpTo(MaxConversation, "s1", debtor_id, message)

NextConversation ==
    \E d \in ConversationDebtors : \E m \in ConversationMessages : Converse(d, m)

SpecConversation == InitStore /\ [][NextConversation]_vars

\* C21 (as claimed): a turn on a session that holds an id_number (an
\* email_address) ends with one, and ends with the same one unless the message
\* is an ID number (an email address).
C21_IdentifiersSticky ==
    (IsTurn /\ ~obs.raised /\ obs.loaded.py_type = "ConversationContext") =>
        /\ (obs.loaded.id_number # None =>
                /\ obs.ctx.id_number # None
                /\ (~is_id_number(obs.arg.message) => obs.ctx.id_number = obs.loaded.id_number))
        /\ (obs.loaded.email_address # None =>
                /\ obs.ctx.email_address # None
                /\ (~is_email(obs.arg.message) => obs.ctx.email_address = obs.loaded.email_address))

\* C22: a turn on a session that is held ends with, returns and stores the
\* session_id and debtor_id of the context it loaded, whatever debtor_id the
\* request carries.
C22_IdentifiersImmutable ==
    (IsTurn /\ ~obs.raised /\ obs.loaded.py_type = "ConversationContext") =>
        /\ obs.loaded.session_id = obs.sid
        /\ obs.ctx.session_id = obs.loaded.session_id
        /\ obs.ctx.debtor_id = obs.loaded.debtor_id
        /\ obs.response.session_id = obs.loaded.session_id
        /\ obs.response.debtor_id = obs.loaded.debtor_id
        /\ StoredDict(obs.sid).session_id = obs.loaded.session_id
        /\ StoredDict(obs.sid).debtor_id = obs.loaded.debtor_id

C22_Witness ==
    /\ IsTurn
    /\ ~obs.raised
    /\ turns = MaxConversation
    /\ obs.loaded.py_type = "ConversationContext"
    /\ obs.loaded.debtor_id = "d1"
    /\ obs.arg.debtor_id = "d2"
    /\ obs.response.debtor_id = "d1"

(***************************************************************************)
(* Overlapping turns: a request loads (Begin), and later runs the rest of  *)
(* run_orchestration and saves (Finish); other requests may do either in   *)
(* between.                                                                *)
(***************************************************************************)
RaceMessages(session_id) ==
    IF session_id = "s1" THEN {MsgText, MsgIdNumber} ELSE {MsgIdNumber}

\* The free worker a new request gets
FreeWorker == CHOOSE w \in Workers : inflight[w] = NoneObj /\ (w = "w1" \/ inflight["w1"] # NoneObj)

\* Line 82: the load of a request
Begin(session_id, debtor_id, message) ==
    LET l == SessionStore_load(Backend, is_redis, session_id, TRUE, now)
    IN  /\ turns < MaxTurns
        /\ \E w \in Workers : inflight[w] = NoneObj
        /\ turns' = turns + 1
        /\ SetBackend(l.b)
        /\ inflight' = [inflight EXCEPT ![FreeWorker] =
                           [py_type |-> "Turn",
                            request |-> [session_id |-> session_id, debtor_id |-> debtor_id,
                                         message |-> message],
                            loaded |-> l.result,
                            stale |-> FALSE]]
        /\ obs' = Extend(Observe("begin", session_id, NoneObj, NoneObj), [pre |-> Backend])
        /\ last_access' = IF l.result # NoneObj THEN Put(last_access, session_id, now)
                          ELSE last_access
        /\ UNCHANGED <<is_redis, now, saved, saved_at>>

\* Lines 84-183: the pipeline and the save of a request that has loaded
Finish(w) ==
    /\ inflight[w] # NoneObj
    /\ LET request == inflight[w].request
           session_id == request.session_id
       IN  \E t \in run_orchestration(inflight[w].loaded, request) :
               LET s == IF t.raised THEN [b |-> Backend, result |-> FALSE]
                        ELSE SessionStore_save(Backend, is_redis, session_id, t.ctx, now)
               IN  /\ SetBackend(s.b)
                   /\ inflight' = [x \in Workers |->
                                     IF x = w THEN NoneObj
                                     ELSE IF inflight[x] # NoneObj /\ s.result
                                             /\ inflight[x].request.session_id = session_id
                                          THEN [inflight[x] EXCEPT !.stale = TRUE]
                                          ELSE inflight[x]]
                   /\ obs' = Extend(Observe("finish", session_id, request, NoneObj),
                                    [pre |-> Backend,
                                     loaded |-> inflight[w].loaded,
                                     stale |-> inflight[w].stale,
                                     raised |-> t.raised,
                                     calls |-> t.calls,
                                     ctx |-> IF t.raised THEN NoneObj ELSE t.ctx,
                                     save_ok |-> s.result])
                   /\ saved' = IF s.result THEN Put(saved, session_id, t.ctx) ELSE saved
                   /\ saved_at' = IF s.result THEN Put(saved_at, session_id, now) ELSE saved_at
                   /\ last_access' = IF s.result THEN Put(last_access, session_id, now)
                                     ELSE last_access
                   /\ UNCHANGED <<is_redis, now, turns>>

NextRace ==
    \/ \E sid \in SessionIds : \E d \in DebtorIds : \E m \in RaceMessages(sid) : Begin(sid, d, m)
    \/ \E w \in Workers : Finish(w)
    \/ Tick(1)

SpecRace == InitStore /\ [][NextRace]_vars

\* C15: a turn that saves leaves in the store exactly the context it ended with,
\* built from what it had loaded: whatever another turn on the session saved in
\* between is overwritten, not merged (a turn that loaded nothing and was sent a
\* plain text saves no id_number).  The overlap is reported to neither turn: a
\* turn ends in an exception only when its classifier or extractor call failed.
C15_LastSaveWins ==
    obs.op = "finish" =>
        IF obs.raised
        THEN LET last == obs.calls[Len(obs.calls)]
             IN  \/ last[1] = "classifier" /\ last[2] \notin IntentType
                 \/ last[1] = "extractor"
        ELSE /\ obs.save_ok
             /\ Live(Backend, is_redis, obs.sid, now)
             /\ StoredDict(obs.sid) = model_dump(obs.ctx)
             /\ StoredDict(obs.sid) = model_dump(saved[obs.sid])
             /\ (obs.loaded.py_type = "NoneType" /\ obs.arg.message = MsgText) =>
                    StoredDict(obs.sid).id_number = None

C15_Witness ==
    /\ obs.op = "finish"
    /\ obs.stale
    /\ ~obs.raised
    /\ obs.loaded.py_type = "NoneType"
    /\ obs.arg.message = MsgText
    /\ Live(obs.pre, is_redis, obs.sid, now)
    /\ StoredDictBefore(obs.sid).id_number = Some(MsgIdNumber)
    /\ StoredDict(obs.sid).id_number = None

\* C16: the load and the save of a turn on one session leave every other live
\* session as it was: still held, with the same content and the same remaining
\* TTL.
C16_OtherSessionsUntouched ==
    obs.op \in {"begin", "finish"} =>
        \A other \in SessionIds \ {obs.sid} :
            Live(obs.pre, is_redis, other, now) =>
                /\ Live(Backend, is_redis, other, now)
                /\ Stored(Backend, is_redis, other) = Stored(obs.pre, is_redis, other)
                /\ SessionStore_get_ttl(Backend, is_redis, other, now)
                      = SessionStore_get_ttl(obs.pre, is_redis, other, now)

C16_Witness ==
    /\ obs.op = "finish"
    /\ obs.sid = "s1"
    /\ obs.save_ok
    /\ ~is_redis
    /\ Live(obs.pre, is_redis, "s2", now)
    /\ SessionStore_get_ttl(obs.pre, is_redis, "s2", now) < ttl_seconds
    /\ Live(Backend, is_redis, "s2", now)

(***************************************************************************)
(* The router as a function: route applied to a context some caller built. *)
(***************************************************************************)
RouteIntents ==
    IntentType \cup {"", "small_talk", "provide_email", "request_approval", "gibberish"}

RouteEntities ==
    {NLUEntities(amount, None, frequency) :
        amount \in {None, Some(0), Some(250), Some(300), Some(350)},
        frequency \in {None, Some("monthly")}}

RouteContexts ==
    {[NewContext("s1", "d1", Some(MsgText)) EXCEPT
        !.intent = intent, !.entities = entities, !.id_number = id_number,
        !.matter_details = matter_details,
        !.awaiting_input = carried.awaiting_input, !.next_agent = carried.next_agent,
        !.email_address = carried.email_address, !.proposed_amount = carried.proposed_amount,
        !.final_response = carried.final_response]
     : intent \in RouteIntents, entities \in RouteEntities,
       id_number \in {None, Some(MsgIdNumber)},
       matter_details \in {NoneObj, MatterDetails(300, 1000)},
       carried \in {[awaiting_input |-> None, next_agent |-> Some("NLU Agent"),
                     email_address |-> None, proposed_amount |-> None,
                     final_response |-> None],
                    [awaiting_input |-> Some("approval_choice"), next_agent |-> Some("NLU Agent"),
                     email_address |-> Some(MsgEmail), proposed_amount |-> Some(250),
                     final_response |-> Some("model: response")]}}

InitRoute ==
    /\ is_redis = FALSE
    /\ _store = EmptyMap
    /\ _timestamps = EmptyMap
    /\ routes_store = EmptyMap
    /\ routes_timestamps = EmptyMap
    /\ registered = EmptyMap
    /\ _handler_cache = [r \in Routers |-> EmptyMap]
    /\ redis = EmptyMap
    /\ now = 0
    /\ saved = EmptyMap
    /\ saved_at = EmptyMap
    /\ last_access = EmptyMap
    /\ turns = 0
    /\ inflight = [w \in Workers |-> NoneObj]
    /\ \E context \in RouteContexts :
          obs = [op |-> "context", arg |-> context, result |-> NoneObj]

Route ==
    /\ obs.op = "context"
    /\ obs' = [op |-> "route", arg |-> obs.arg, result |-> route(obs.arg)]
    /\ UNCHANGED <<registered, _handler_cache, routes_store, routes_timestamps, inflight, is_redis, _store, _timestamps, redis, now, saved, saved_at, last_access, turns>>

NextRoute == Route

SpecRoute == InitRoute /\ [][NextRoute]_vars

(***************************************************************************)
(* ApprovalRequestHandler.handle as a function of the context.             *)
(***************************************************************************)
MsgBlank == <<" ">>

ApprovalContexts ==
    {[NewContext("s1", "d1", last_user_message) EXCEPT
        !.intent = intent, !.awaiting_input = awaiting_input,
        !.email_address = email_address, !.next_agent = next_agent,
        !.matter_details = matter_details, !.proposed_amount = proposed_amount]
     : last_user_message \in {None, Some(MsgEmpty), Some(MsgBlank), Some(MsgText), Some(MsgEmail)},
       intent \in {"request_approval", "provide_email"},
       awaiting_input \in {None, Some("approval_choice"), Some("email_address")},
       email_address \in {None, Some(MsgEmail)},
       next_agent \in {None, Some("NLU Agent")},
       matter_details \in {NoneObj, MatterDetails(300, 1000)},
       proposed_amount \in {None, Some(250)}}

InitApproval ==
    /\ is_redis = FALSE
    /\ _store = EmptyMap
    /\ _timestamps = EmptyMap
    /\ routes_store = EmptyMap
    /\ routes_timestamps = EmptyMap
    /\ registered = EmptyMap
    /\ _handler_cache = [r \in Routers |-> EmptyMap]
    /\ redis = EmptyMap
    /\ now = 0
    /\ saved = EmptyMap
    /\ saved_at = EmptyMap
    /\ last_access = EmptyMap
    /\ turns = 0
    /\ inflight = [w \in Workers |-> NoneObj]
    /\ \E context \in ApprovalContexts :
          obs = [op |-> "context", arg |-> context, result |-> NoneObj]

Approval ==
    /\ obs.op = "context"
    /\ obs' = [op |-> "approval", arg |-> obs.arg, result |-> ApprovalRequestHandler(obs.arg)]
    /\ UNCHANGED <<registered, _handler_cache, routes_store, routes_timestamps, inflight, is_redis, _store, _timestamps, redis, now, saved, saved_at, last_access, turns>>

NextApproval == Approval

SpecApproval == InitApproval /\ [][NextApproval]_vars

\* C25 (as claimed): handle on a context without an email address returns a
\* context with a prompt for the address as final_response and awaiting_input =
\* "email_address", and next_agent is not "EmailAgent"; in every case a returned
\* next_agent = "EmailAgent" comes with a well-formed address in email_address.
C25_ApprovalNeedsEmail ==
    obs.op = "approval" =>
        /\ (~TruthyChars(obs.arg.email_address) =>
                /\ obs.result.py_type = "ConversationContext"
                /\ obs.result.final_response \in
                        {Some("approval: please provide your email address"),
                         Some("approval: please provide a valid email address")}
                /\ obs.result.awaiting_input = Some("email_address")
                /\ obs.result.next_agent # Some("EmailAgent"))
        /\ (obs.result.py_type = "ConversationContext" =>
                (obs.result.next_agent = Some("EmailAgent") =>
                    /\ TruthyChars(obs.result.email_address)
                    /\ obs.result.email_address # EmailStrObject
                    /\ is_email(obs.result.email_address[1])))

(***************************************************************************)
(* ResponseAgent.run as a function of the context and of what the model    *)
(* call comes back with.                                                   *)
(***************************************************************************)
ResponseIntents == IntentType \cup {"provide_email"}

ResponseContexts ==
    {[NewContext("s1", "d1", Some(MsgText)) EXCEPT
        !.intent = intent, !.entities = entities, !.final_response = final_response,
        !.next_agent = Some("ResponseAgent"), !.agent_path = agent_path]
     : intent \in ResponseIntents, entities \in RouteEntities,
       final_response \in {None, Some("model: response")},
       agent_path \in {<<"Master Agent", "IntentRouter">>,
                       <<"Master Agent", "IntentRouter", "ResponseAgent", "Orchestrator">>}}

InitResponse ==
    /\ is_redis = FALSE
    /\ _store = EmptyMap
    /\ _timestamps = EmptyMap
    /\ routes_store = EmptyMap
    /\ routes_timestamps = EmptyMap
    /\ registered = EmptyMap
    /\ _handler_cache = [r \in Routers |-> EmptyMap]
    /\ redis = EmptyMap
    /\ now = 0
    /\ saved = EmptyMap
    /\ saved_at = EmptyMap
    /\ last_access = EmptyMap
    /\ turns = 0
    /\ inflight = [w \in Workers |-> NoneObj]
    /\ \E context \in ResponseContexts :
          obs = [op |-> "context", arg |-> context, result |-> NoneObj, calls |-> << >>]

Respond ==
    /\ obs.op = "context"
    /\ \E t \in ResponseAgent_run([ctx |-> obs.arg, raised |-> FALSE, calls |-> << >>,
                                    route_in |-> NoneObj, route_out |-> NoneObj]) :
          obs' = [op |-> "response", arg |-> obs.arg,
                  result |-> IF t.raised THEN RaisedError ELSE t.ctx, calls |-> t.calls]
    /\ UNCHANGED <<registered, _handler_cache, routes_store, routes_timestamps, inflight, is_redis, _store, _timestamps, redis, now, saved, saved_at, last_access, turns>>

NextResponse == Respond

SpecResponse == InitResponse /\ [][NextResponse]_vars

\* The model call of this run failed
ResponseModelFailed ==
    obs.op = "response" /\ obs.calls = <<(<<"response_model", "ModelError">>)>>

\* C30: when the model call fails, run returns the context with a non-empty
\* final_response: for setup_payment_plan the question about the amount when the
\* amount is missing, else the one about the frequency when that is missing;
\* for request_settlement_quote the question about the amount when it is
\* missing; otherwise the template of the intent, and the template of "unknown"
\* for an intent that has none.
C30_FallbackCoversEveryIntent ==
    ResponseModelFailed =>
        LET intent == obs.arg.intent
            no_amount == ~TruthyNum(obs.arg.entities.amount)
            no_frequency == ~TruthyStr(obs.arg.entities.frequency)
            expected ==
                IF intent \in {"setup_payment_plan", "request_settlement_quote"} /\ no_amount
                THEN "fallback: How much would you like to pay?"
                ELSE IF intent = "setup_payment_plan" /\ no_frequency
                THEN "fallback: How often would you like to make payments?"
                ELSE IF intent \in DOMAIN TEMPLATES THEN TEMPLATES[intent]
                ELSE "fallback: I'm not sure I understood your request"
        IN  /\ obs.result.py_type = "ConversationContext"
            /\ TruthyStr(obs.result.final_response)
            /\ obs.result.final_response = Some(expected)
            /\ obs.result = [obs.arg EXCEPT !.final_response = Some(expected),
                                            !.agent_path = Append1(@, "ResponseAgent")]

C30_Witness ==
    /\ ResponseModelFailed
    /\ obs.arg.intent = "setup_payment_plan"
    /\ obs.arg.entities.amount = None
    /\ obs.arg.entities.frequency = None
    /\ obs.result.final_response = Some("fallback: How much would you like to pay?")

(***************************************************************************)
(* is_id_number as a function of the message.                              *)
(***************************************************************************)
DigitRun(n) == [i \in 1..n |-> "8"]

\* Runs of 11 to 15 digits, alone or with one other character somewhere in the
\* run, between a leading and a trailing piece
IdNumberBodies ==
    {DigitRun(n) : n \in 11..15}
        \cup {SubSeq(DigitRun(n), 1, p) \o <<ch>> \o SubSeq(DigitRun(n), p + 1, n) :
                n \in 11..15, p \in 0..11, ch \in {" ", "-", "a", "\n"}}

IdNumberMessages ==
    {lead \o body \o trail :
        lead \in {<< >>, <<" ">>, <<"\n">>, <<"-">>},
        body \in IdNumberBodies,
        trail \in {<< >>, <<" ">>, <<"\n">>, <<"-">>, <<"\n", "-">>}}

InitIdNumber ==
    /\ is_redis = FALSE
    /\ _store = EmptyMap
    /\ _timestamps = EmptyMap
    /\ routes_store = EmptyMap
    /\ routes_timestamps = EmptyMap
    /\ registered = EmptyMap
    /\ _handler_cache = [r \in Routers |-> EmptyMap]
    /\ redis = EmptyMap
    /\ now = 0
    /\ saved = EmptyMap
    /\ saved_at = EmptyMap
    /\ last_access = EmptyMap
    /\ turns = 0
    /\ inflight = [w \in Workers |-> NoneObj]
    /\ \E message \in IdNumberMessages :
          obs = [op |-> "message", arg |-> message, result |-> NoneObj]

IsIdNumber ==
    /\ obs.op = "message"
    /\ obs' = [op |-> "is_id_number", arg |-> obs.arg, result |-> is_id_number(obs.arg)]
    /\ UNCHANGED <<registered, _handler_cache, routes_store, routes_timestamps, inflight, is_redis, _store, _timestamps, redis, now, saved, saved_at, last_access, turns>>

NextIdNumber == IsIdNumber

SpecIdNumber == InitIdNumber /\ [][NextIdNumber]_vars

\* The message without its surrounding whitespace, its spaces and its hyphens
Cleaned(message) == remove(remove(strip(message), " "), "-")

\* C24 (as claimed): is_id_number is true exactly when the cleaned message is 13
\* digits and nothing else; it is false for 12 and 14 digits and for a message
\* with a letter in it.
C24_ThirteenDigitsExactly ==
    obs.op = "is_id_number" =>
        /\ obs.result = (/\ Len(Cleaned(obs.arg)) = 13
                         /\ \A i \in 1..Len(Cleaned(obs.arg)) : Cleaned(obs.arg)[i] \in Digits)
        /\ (Contains(obs.arg, "a") => ~obs.result)
        /\ (obs.arg \in {DigitRun(12), DigitRun(14)} => ~obs.result)

\* C8 (as claimed): route on intent setup_payment_plan, with the account data
\* there and an amount proposed: an amount strictly below minimum_payment leaves
\* awaiting_input = "approval_choice" and proposed_amount = the amount; an amount
\* equal to or above it leaves awaiting_input = "plan_confirmation".
C8_PlanAmountAgainstMinimum ==
    (/\ obs.op = "route"
     /\ obs.arg.intent = "setup_payment_plan"
     /\ TruthyObj(obs.arg.matter_details)
     /\ TruthyNum(obs.arg.entities.amount)) =>
        IF obs.arg.entities.amount[1] < obs.arg.matter_details.minimum_payment
        THEN /\ obs.result.awaiting_input = Some("approval_choice")
             /\ obs.result.proposed_amount = obs.arg.entities.amount
        ELSE obs.result.awaiting_input = Some("plan_confirmation")

\* C27: route on an intent that has no entry in HANDLERS returns the context
\* the unknown-intent handler returns: the clarifying menu as final_response,
\* the router's name in agent_path, and nothing else changed.
C27_UnregisteredFallsBack ==
    (obs.op = "route" /\ obs.arg.intent # "" /\ obs.arg.intent \notin DOMAIN HANDLERS) =>
        /\ obs.result.py_type = "ConversationContext"
        /\ obs.result.final_response = Some("clarifying menu")
        /\ obs.result =
              [obs.arg EXCEPT !.final_response = Some("clarifying menu"),
                              !.agent_path = Append1(@, "IntentRouter")]

C27_Witness ==
    /\ obs.op = "route"
    /\ obs.arg.intent = "provide_email"
    /\ obs.arg.final_response # Some("clarifying menu")
    /\ obs.result.final_response = Some("clarifying menu")

\* The text each of the three static handlers writes
StaticText(handler) ==
    CASE handler = "BankingDetailsHandler" -> "banking details"
      [] handler = "SmallTalkHandler" -> "small talk menu"
      [] OTHER -> "clarifying menu"

\* C29: route to the banking-details, small-talk or unknown-intent handler
\* returns the context with the handler's text as final_response and the
\* router's name in agent_path; awaiting_input, next_agent, id_number,
\* email_address, entities, proposed_amount, matter_details and every other
\* field are as they were passed.
C29_StaticHandlersNoTransition ==
    (/\ obs.op = "route"
     /\ obs.arg.intent \in DOMAIN HANDLERS \cup {""}
     /\ _get_handler(IF obs.arg.intent = "" THEN "unknown" ELSE obs.arg.intent)
            \in {"BankingDetailsHandler", "SmallTalkHandler", "UnknownIntentHandler"}) =>
        LET handler == _get_handler(IF obs.arg.intent = "" THEN "unknown" ELSE obs.arg.intent)
        IN  /\ obs.result = [obs.arg EXCEPT !.final_response = Some(StaticText(handler)),
                                            !.agent_path = Append1(@, "IntentRouter")]
            /\ \A f \in {"awaiting_input", "next_agent", "id_number", "email_address",
                          "entities", "proposed_amount", "matter_details"} :
                    obs.result[f] = obs.arg[f]

C29_Witness ==
    /\ obs.op = "route"
    /\ obs.arg.intent = "confirm_banking_details"
    /\ obs.arg.awaiting_input = Some("approval_choice")
    /\ obs.arg.proposed_amount = Some(250)
    /\ obs.result.final_response = Some("banking details")
    /\ obs.result.awaiting_input = Some("approval_choice")

(***************************************************************************)
(* The router as an object: HANDLERS is one table of the class, written by *)
(* register_handler; _handler_cache belongs to the instance.               *)
(***************************************************************************)
\* self.HANDLERS.get(intent, UnknownIntentHandler), with the registrations
HANDLERS_get(table, intent) ==
    IF intent \in DOMAIN table THEN table[intent] ELSE _get_handler(intent)

\* IntentRouter._get_handler on an instance: the handler and the cache it leaves
IntentRouter_get_handler(table, cache, intent) ==
    IF intent \in DOMAIN cache
    THEN [handler |-> cache[intent], cache |-> cache]
    ELSE [handler |-> HANDLERS_get(table, intent),
          cache |-> Put(cache, intent, HANDLERS_get(table, intent))]

\* IntentRouter.register_handler, called on one instance
register_handler(table, caches, router, intent, handler_class) ==
    [table |-> Put(table, intent, handler_class),
     caches |-> [caches EXCEPT ![router] = Pop(@, intent)]]

RegistryIntents == {"get_balance", "small_talk", "gibberish"}
RegistryHandlers == {"SmallTalkHandler", "BankingDetailsHandler"}

InitRegistry ==
    /\ InitStore
    /\ ~is_redis

RouterRoute(router, intent) ==
    LET context == [NewContext("s1", "d1", Some(MsgText)) EXCEPT !.intent = intent]
        g == IntentRouter_get_handler(registered, _handler_cache[router], intent)
    IN  /\ _handler_cache' = [_handler_cache EXCEPT ![router] = g.cache]
        /\ obs' = [op |-> "route", router |-> router, intent |-> intent,
                   cached |-> intent \in DOMAIN _handler_cache[router],
                   handler |-> g.handler,
                   result |-> handle(g.handler,
                                     [context EXCEPT !.agent_path = Append1(@, "IntentRouter")])]
        /\ UNCHANGED <<registered, routes_store, routes_timestamps, inflight, is_redis, _store,
                       _timestamps, redis, now, saved, saved_at, last_access, turns>>

RegisterHandler(router, intent, handler_class) ==
    LET r == register_handler(registered, _handler_cache, router, intent, handler_class)
    IN  /\ registered' = r.table
        /\ _handler_cache' = r.caches
        /\ obs' = [op |-> "register_handler", router |-> router, intent |-> intent,
                   cached |-> FALSE, handler |-> handler_class, result |-> NoneObj]
        /\ UNCHANGED <<routes_store, routes_timestamps, inflight, is_redis, _store,
                       _timestamps, redis, now, saved, saved_at, last_access, turns>>

NextRegistry ==
    \/ \E r \in Routers : \E intent \in RegistryIntents : RouterRoute(r, intent)
    \/ \E r \in Routers : \E intent \in RegistryIntents : \E h \in RegistryHandlers :
            RegisterHandler(r, intent, h)

SpecRegistry == InitRegistry /\ [][NextRegistry]_vars

\* C38 (as claimed): once a handler is registered for an intent, route with
\* that intent dispatches to it on every router instance, whether or not the
\* instance routed the intent before.
C38_RegistrationReachesEveryRouter ==
    (obs.op = "route" /\ obs.intent \in DOMAIN registered) =>
        obs.handler = registered[obs.intent]

====
